---------------------------- MODULE Spec2Model ----------------------------
(***************************************************************************)
(* A model of the SOP generator: the transport client (agents.call_llm),   *)
(* the author/reviewer pipeline (agents._manual_pipeline, run_review), the *)
(* feedback parser, the template fallback generator and the markdown       *)
(* renderer (export._convert_markdown_to_doc).                             *)
(*                                                                         *)
(* Text is a sequence of tokens.  The characters the program's regular     *)
(* expressions and string tests distinguish ("#", digits, ".", "|", "-",   *)
(* ":", blanks, line breaks, ...) are one token each; any other token is a *)
(* word: a non-empty run of characters none of which is a blank, a digit   *)
(* or one of those marks at its ends.  Cyrillic literals of the source are *)
(* transliterated, since a TLA+ string is ASCII.                           *)
(***************************************************************************)
EXTENDS Integers, Sequences, FiniteSets, TLC

VARIABLES
    \* ---- call_llm (src/agents.py:26-138)
    llm_pc,        \* "idle" | "post" | "sleep" | "returned" | "raised"
    messages,      \* the conversation argument
    max_tokens,    \* the token budget argument
    attempt,       \* outer loop index, range(2)
    url,           \* index into API_URLS (1-based)
    tier,          \* 1 plain/full, 2 typed/full, 3 plain/minimal, 4 typed/minimal
    posts,         \* the POST requests sent so far, in order
    last_err,      \* last_err of call_llm
    llm_out,       \* the content returned or the error raised
    sleeps,        \* the time.sleep calls made, in tenths of a second
    sessions,      \* the sessions _post_once has made in this call: "open" | "closed"
    last_resp,     \* the reply to the last POST (kept when call_llm runs on its own)
    service,       \* what the remote service answers in this run: "mixed" or "long"
    st_secrets,    \* streamlit's st.secrets as userdata.get finds it
    environ,       \* os.environ: what os.getenv gives for each name of _ENV_MAP
    max_rounds,    \* the max_rounds argument of run_review
    versions_dir,  \* the versions directory: how often each file name was written
    outline_text,  \* the argument of _extract_top_level_headings called on its own
    \* ---- _manual_pipeline / run_review (src/agents.py:278-388, 467-470)
    pc,
    input_data,
    conversation,
    feedback_items,
    status,
    used_fallback,
    headings,
    draft_parts,
    draft,
    critic_feedback,
    revised,
    critiques,     \* the critiques the remote reviewer returned, in order
    raised_at,     \* the steps whose remote call raised
    result,        \* the ReviewResult returned by run_review, or None
    escaped,       \* TRUE when an exception left run_review
    doc,           \* the rendered main content of the result, or None
    \* ---- _convert_markdown_to_doc (src/export.py:168-253)
    md_lines,      \* the lines of the markdown being rendered
    image_files,   \* the image paths that exist
    rst,           \* the loop state: i, sec_nums, the counters, the output
    renders,       \* the render calls made so far: the text and what it came to
    \* ---- _parse_feedback (src/agents.py:176-199)
    parse_pc,
    fb_text,       \* the critique text handed to _parse_feedback
    fb_items       \* the items it returned

llmVars == <<llm_pc, messages, max_tokens, attempt, url, tier, posts, last_err,
             llm_out, sleeps, last_resp, sessions>>
renderVars == <<md_lines, image_files, rst, renders>>
parseVars == <<parse_pc, fb_text, fb_items>>
envVars == <<service, st_secrets, environ, max_rounds, versions_dir, outline_text>>
runVars == <<pc, input_data, conversation, feedback_items, status, used_fallback,
             headings, draft_parts, draft, critic_feedback, revised, critiques,
             raised_at, result, escaped, doc>>
vars == <<llmVars, runVars, renderVars, parseVars, envVars>>

None == [none |-> TRUE]

-----------------------------------------------------------------------------
(* Text helpers: Python's str methods on token sequences.                  *)

NL == "\n"
SP == " "
Blank == {SP, NL, "\t"}
Digit == {"0", "1", "2", "3", "4", "5", "6", "7", "8", "9"}

\* The number of leading tokens of s that are in S.
LeadingIn(s, S) ==
    IF \A i \in 1..Len(s) : s[i] \in S THEN Len(s)
    ELSE (CHOOSE i \in 1..Len(s) : s[i] \notin S /\ \A j \in 1..(i-1) : s[j] \in S) - 1

\* The number of trailing tokens of s that are in S.
TrailingIn(s, S) ==
    IF \A i \in 1..Len(s) : s[i] \in S THEN Len(s)
    ELSE Len(s) - (CHOOSE i \in 1..Len(s) : s[i] \notin S /\ \A j \in (i+1)..Len(s) : s[j] \in S)

Drop(s, n) == SubSeq(s, n + 1, Len(s))
Take(s, n) == SubSeq(s, 1, n)

\* str.lstrip(), str.rstrip(), str.strip()
LStrip(s) == Drop(s, LeadingIn(s, Blank))
RStrip(s) == Take(s, Len(s) - TrailingIn(s, Blank))
Strip(s) == RStrip(LStrip(s))

StartsWith(s, p) == Len(s) >= Len(p) /\ Take(s, Len(p)) = p

RECURSIVE Concat(_)
\* "".join(parts)
Concat(parts) == IF parts = <<>> THEN <<>> ELSE Head(parts) \o Concat(Tail(parts))

RECURSIVE JoinReversed(_, _)
\* The parts joined last to first.
JoinReversed(sep, parts) ==
    IF parts = <<>> THEN <<>>
    ELSE IF Len(parts) = 1 THEN parts[1]
    ELSE JoinReversed(sep, Tail(parts)) \o sep \o parts[1]

RECURSIVE Join(_, _)
\* sep.join(parts)
Join(sep, parts) ==
    IF parts = <<>> THEN <<>>
    ELSE IF Len(parts) = 1 THEN parts[1]
    ELSE parts[1] \o sep \o Join(sep, Tail(parts))

RECURSIVE SplitAt(_, _)
\* s cut at every token t (the pieces, t dropped; one more piece than cuts)
SplitAt(s, t) ==
    IF \A i \in 1..Len(s) : s[i] # t THEN <<s>>
    ELSE LET i == CHOOSE k \in 1..Len(s) : s[k] = t /\ \A j \in 1..(k-1) : s[j] # t
         IN  <<Take(s, i - 1)>> \o SplitAt(Drop(s, i), t)

\* str.splitlines(): no last empty line after a final line break
SplitLines(s) ==
    IF s = <<>> THEN <<>>
    ELSE LET ps == SplitAt(s, NL)
         IN  IF ps[Len(ps)] = <<>> THEN Take(ps, Len(ps) - 1) ELSE ps

RECURSIVE Str(_)
\* str(n) for n >= 0: the decimal digits
Str(n) ==
    LET d == <<"0", "1", "2", "3", "4", "5", "6", "7", "8", "9">>[(n % 10) + 1]
    IN  IF n < 10 THEN <<d>> ELSE Str(n \div 10) \o <<d>>

Min(a, b) == IF a <= b THEN a ELSE b

-----------------------------------------------------------------------------
(* JSON values of a reply body, and Python's truth test on them.           *)

JNull == [t |-> "null"]
JStr(s) == [t |-> "str", v |-> s]
JDict(d) == [t |-> "dict", v |-> d]
JList(l) == [t |-> "list", v |-> l]
EmptyDict == << >>
Truthy(j) == \/ j.t = "str" /\ j.v # <<>>
             \/ j.t = "dict" /\ DOMAIN j.v # {}

\* dict.get(key) with a missing key giving None
Get(d, key) == IF key \in DOMAIN d THEN d[key] ELSE JNull

\* (j or "").strip() for j a string or None
StrOrEmpty(j) == IF Truthy(j) THEN Strip(j.v) ELSE <<>>

-----------------------------------------------------------------------------
(* call_llm                                                                *)

API_URLS == <<"/v1/chat/completions", "/v1/completions">>
MODEL_NAME == "llama4scout"
\* range(1): a single outer attempt
AttemptsOnce == Len(API_URLS) - 1
Attempts == 2
SmallTokenCap == 800
BackoffTenths == 8

\* The JSON body with content = string
payload_plain(msgs, tokens) ==
    [model |-> MODEL_NAME,
     messages |-> [i \in 1..Len(msgs) |->
                     [role |-> msgs[i].role, content |-> JStr(msgs[i].content)]],
     max_tokens |-> tokens, temperature |-> 0, stream |-> FALSE]

\* The JSON body with content = [{type: text, text: ...}]
payload_typed(msgs, tokens) ==
    [model |-> MODEL_NAME,
     messages |-> [i \in 1..Len(msgs) |->
                     [role |-> IF msgs[i].role = "" THEN "user" ELSE msgs[i].role,
                      content |-> JList(<<[type |-> "text", text |-> msgs[i].content]>>)]],
     max_tokens |-> tokens, temperature |-> 0, stream |-> FALSE]

\* minimal_msgs of tiers three and four
minimal_msgs(msgs) ==
    (IF msgs # <<>> /\ msgs[1].role = "system" THEN <<msgs[1]>> ELSE <<>>)
    \o (IF msgs # <<>> THEN <<msgs[Len(msgs)]>> ELSE <<>>)

small_tokens(mt) == Min(SmallTokenCap, mt)

\* The typed shape tried last: plain full, plain minimal, typed full, typed minimal.
tier_payload_plain_first(t, msgs, mt) ==
    CASE t = 1 -> payload_plain(msgs, mt)
      [] t = 2 -> payload_plain(minimal_msgs(msgs), small_tokens(mt))
      [] t = 3 -> payload_typed(msgs, mt)
      [] t = 4 -> payload_typed(minimal_msgs(msgs), small_tokens(mt))

\* The payload call_llm posts at a tier.
tier_payload(t, msgs, mt) ==
    CASE t = 1 -> payload_plain(msgs, mt)
      [] t = 2 -> payload_typed(msgs, mt)
      [] t = 3 -> payload_plain(minimal_msgs(msgs), small_tokens(mt))
      [] t = 4 -> payload_typed(minimal_msgs(msgs), small_tokens(mt))

\* _extract_content: [exc |-> TRUE] when it raises (IndexError on an empty
\* choices list), else the extracted text.
extract_content(resp_json) ==
    IF "choices" \in DOMAIN resp_json /\ resp_json.choices = <<>>
    THEN [exc |-> TRUE, val |-> <<>>]
    ELSE LET choice0 == IF "choices" \in DOMAIN resp_json
                        THEN resp_json.choices[1] ELSE EmptyDict
             got == Get(choice0, "message")
             msg == IF Truthy(got) THEN got ELSE JDict(EmptyDict)
         IN  IF msg.t = "dict"
             THEN [exc |-> FALSE, val |-> StrOrEmpty(Get(msg.v, "content"))]
             ELSE [exc |-> FALSE, val |-> StrOrEmpty(Get(choice0, "text"))]

Err(kind, n) == [ok |-> FALSE, content |-> <<>>, err |-> [kind |-> kind, post |-> n]]
Ok(c) == [ok |-> TRUE, content |-> c, err |-> None]

\* _post_once without the "if not content" test
post_once_accepts_empty(resp, n) ==
    IF resp.kind = "exc" THEN Err("connection", n)
    ELSE IF resp.status = 200
         THEN IF ~resp.json THEN Err("non-JSON", n)
              ELSE LET c == extract_content(resp.body)
                   IN  IF c.exc THEN Err("extract", n) ELSE Ok(c.val)
         ELSE Err("status", n)

\* _post_once on reply resp, the n-th POST of the call: the content it
\* returns or the error it raises.
post_once(resp, n) ==
    IF resp.kind = "exc" THEN Err("connection", n)
    ELSE IF resp.status = 200
         THEN IF ~resp.json THEN Err("non-JSON", n)
              ELSE LET c == extract_content(resp.body)
                   IN  IF c.exc THEN Err("extract", n)
                       ELSE IF c.val = <<>> THEN Err("empty content", n)
                       ELSE Ok(c.val)
         ELSE Err("status", n)

-----------------------------------------------------------------------------
(* The texts the remote service is made to return, and its replies.        *)

Sentinel == <<"STATUS", ":", SP, "OK">>

\* An outline of two numbered lines, the first of them twice.
OutlineTwo == <<"1", ".", SP, "Scope", NL,
                "preface", NL,
                "1", ".", SP, "Scope", NL,
                SP, "2", ".", "1", SP, SP, "Steps">>

\* A critique of one well-formed ISSUE/WHY/FIX/BLOCKER block.
IssueText == <<"ISSUE", ":", SP, "caption", NL,
               "WHY", ":", SP, "rule", NL,
               "FIX", ":", SP, "add", NL,
               "BLOCKER", ":", SP, "yes">>

Contents == {Sentinel, OutlineTwo, IssueText}

\* The text of a legacy-shaped reply.
LegacyText == IssueText

\* What a reply carries before _extract_content strips it.
RawContents == Contents \cup {<<>>, <<SP, NL>>, <<SP>> \o Sentinel \o <<NL>>}

Chat(raw) == [choices |-> <<[message |-> JDict([content |-> JStr(raw)])]>>]
Legacy(raw) == [choices |-> <<[text |-> JStr(raw)]>>]

Bodies ==
    {Chat(raw) : raw \in RawContents}
    \cup {Legacy(raw) : raw \in {<<>>, LegacyText}}
    \cup {[choices |-> <<[message |-> JDict([content |-> JStr(<<>>)]),
                          text |-> JStr(LegacyText)]>>],
          [choices |-> <<[message |-> JDict([content |-> JNull]),
                          text |-> JStr(LegacyText)]>>],
          [choices |-> <<[message |-> JStr(<<"refused">>),
                          text |-> JStr(LegacyText)]>>],
          [choices |-> <<[message |-> JNull, text |-> JStr(LegacyText)]>>],
          [choices |-> <<>>],
          [id |-> JStr(<<"x">>)]}

Http(st, js, b) == [kind |-> "http", status |-> st, json |-> js, body |-> b]

Responses ==
    {[kind |-> "exc"]}
    \cup {Http(200, TRUE, b) : b \in Bodies}
    \cup {Http(200, FALSE, EmptyDict), Http(500, FALSE, EmptyDict),
          Http(503, TRUE, Chat(LegacyText))}

\* An outline of nine numbered lines.
OutlineNine ==
    Join(<<NL>>, [n \in 1..9 |-> Str(n) \o <<".", SP, "Part">> \o Str(n)])

\* The replies of a service that answers every request it answers with the
\* nine-line outline.
LongResponses ==
    {[kind |-> "exc"], Http(200, TRUE, Chat(OutlineNine)), Http(500, FALSE, EmptyDict)}

\* The replies of a service that answers with well-formed chat replies or
\* not at all.
PlainResponses ==
    {[kind |-> "exc"]} \cup {Http(200, TRUE, Chat(raw)) : raw \in Contents}

Services == {"mixed", "long"}

\* The replies the service of this run can give to a POST.
Served ==
    IF service = "long" THEN LongResponses
    ELSE IF service = "plain" THEN PlainResponses
    ELSE Responses

-----------------------------------------------------------------------------
(* userdata.get and the request headers of call_llm                        *)

ENV_NAMES == <<"LLM_API_KEY", "GOVPLAN_API_KEY", "API_KEY", "OPENROUTER_API_KEY">>

\* _ENV_MAP.get(key, [])
ENV_MAP(key) == IF key = "api_key" THEN ENV_NAMES ELSE <<>>

\* st is None: streamlit could not be imported.
NoStreamlit == [kind |-> "absent"]
\* st.secrets raises on every access (no secrets file).
Unreadable == [kind |-> "raises"]
\* st.secrets holding vals, a mapping from names to values.
SecretStore(vals) == [kind |-> "store", vals |-> vals]

\* The names `in st.secrets` is true of; a raise is swallowed (lines 20, 26).
SecretNames(secrets) == IF secrets.kind = "store" THEN DOMAIN secrets.vals ELSE {}

\* The index of the first name of names that is in S, or 0.
FirstIndex(names, S) ==
    IF \E i \in 1..Len(names) : names[i] \in S
    THEN CHOOSE i \in 1..Len(names) :
             names[i] \in S /\ \A j \in 1..(i - 1) : names[j] \notin S
    ELSE 0

\* userdata.get with the environment consulted before the secret store.
get_env_first(key, default, secrets, env) ==
    LET names == ENV_MAP(key)
        s == FirstIndex(names, SecretNames(secrets))
        e == FirstIndex(names, {n \in DOMAIN env : Truthy(env[n])})
    IN  IF e > 0 THEN env[names[e]]
        ELSE IF key \in SecretNames(secrets) THEN secrets.vals[key]
        ELSE IF s > 0 THEN secrets.vals[names[s]]
        ELSE default

\* userdata.get(key, default)
get(key, default, secrets, env) ==
    LET names == ENV_MAP(key)
        s == FirstIndex(names, SecretNames(secrets))
        e == FirstIndex(names, {n \in DOMAIN env : Truthy(env[n])})
    IN  IF key \in SecretNames(secrets) THEN secrets.vals[key]
        ELSE IF s > 0 THEN secrets.vals[names[s]]
        ELSE IF e > 0 THEN env[names[e]]
        ELSE default

\* api_key = userdata_get('api_key') or ""
api_key == LET v == get("api_key", JNull, st_secrets, environ)
           IN  IF Truthy(v) THEN v.v ELSE <<>>

\* headers of call_llm: Authorization only for a non-empty key
request_headers(key) ==
    LET base == ("accept" :> <<"application/json">>)
                @@ ("Content-Type" :> <<"application/json">>)
                @@ ("Connection" :> <<"close">>)
    IN  IF key # <<>>
        THEN base @@ ("Authorization" :> (<<"Bearer", SP>> \o key))
        ELSE base

\* No secret store and an empty environment.
NoEnviron == [n \in {ENV_NAMES[i] : i \in 1..Len(ENV_NAMES)} |-> JNull]
CredIdle == st_secrets = NoStreamlit /\ environ = NoEnviron

-----------------------------------------------------------------------------
(* call_llm as a state machine: one action per POST, per sleep, and for    *)
(* the final raise.                                                        *)

LlmIdle ==
    /\ llm_pc = "idle" /\ messages = <<>> /\ max_tokens = 0
    /\ attempt = 0 /\ url = 1 /\ tier = 1
    /\ posts = <<>> /\ last_err = None /\ llm_out = None /\ sleeps = <<>>
    /\ last_resp = None /\ sessions = <<>>

\* Entering call_llm(msgs, max_tokens=mt).
LlmBegin(msgs, mt) ==
    /\ llm_pc' = "post" /\ messages' = msgs /\ max_tokens' = mt
    /\ attempt' = 0 /\ url' = 1 /\ tier' = 1
    /\ posts' = <<>> /\ last_err' = None /\ llm_out' = None /\ sleeps' = <<>>
    /\ last_resp' = None /\ sessions' = <<>>

\* call_llm's frame is gone once its caller has taken the outcome.
LlmEnd ==
    /\ llm_pc' = "idle" /\ messages' = <<>> /\ max_tokens' = 0
    /\ attempt' = 0 /\ url' = 1 /\ tier' = 1
    /\ posts' = <<>> /\ last_err' = None /\ llm_out' = None /\ sleeps' = <<>>
    /\ last_resp' = None /\ sessions' = <<>>

\* The sessions when close() is called only where the try body ends normally.
after_post_closed_on_return(ss, ok) ==
    IF ok THEN [ss EXCEPT ![Len(ss)] = "closed"] ELSE ss

\* The sessions after _post_once's finally block: session.close() runs
\* whether the try body returned (ok) or raised.
after_post(ss, ok) == [ss EXCEPT ![Len(ss)] = "closed"]

\* The POST being made, with what its _post_once came to (r).
ThisPost(r) == [attempt |-> attempt, url |-> API_URLS[url], tier |-> tier,
                headers |-> request_headers(api_key),
                payload |-> tier_payload(tier, messages, max_tokens),
                ok |-> r.ok, content |-> r.content]

\* The reply is kept for inspection when call_llm runs outside a pipeline.
Kept(resp) == IF pc = "idle" THEN resp ELSE None

\* _post_once returns on the reply resp: call_llm returns its content at once.
Succeeds(resp) ==
    /\ LET r == post_once(resp, Len(posts) + 1)
       IN  /\ r.ok
           /\ posts' = Append(posts, ThisPost(r))
           /\ last_resp' = Kept(resp)
           /\ llm_out' = r.content
           /\ llm_pc' = "returned"
    /\ UNCHANGED <<messages, max_tokens, attempt, url, tier, last_err, sleeps>>

\* A POST whose _post_once returns, its session made and closed within it.
PostSucceeds ==
    /\ llm_pc = "post"
    /\ \E resp \in Served : Succeeds(resp)
    /\ sessions' = after_post(Append(sessions, "open"), TRUE)
    /\ UNCHANGED <<runVars, renderVars, parseVars, envVars>>

\* A POST whose _post_once raises: the next tier, the next URL, or the sleep
\* that ends the outer attempt.
Fails(resp) ==
    /\ LET r == post_once(resp, Len(posts) + 1)
       IN  /\ ~r.ok
           /\ posts' = Append(posts, ThisPost(r))
           /\ last_resp' = Kept(resp)
           /\ last_err' = r.err
    /\ IF tier < 4
       THEN tier' = tier + 1 /\ llm_pc' = "post" /\ UNCHANGED url
       ELSE /\ tier' = 1
            /\ IF url < Len(API_URLS)
               THEN url' = url + 1 /\ llm_pc' = "post"
               ELSE url' = 1 /\ llm_pc' = "sleep"
    /\ UNCHANGED <<messages, max_tokens, attempt, llm_out, sleeps>>

\* A POST whose _post_once raises, its session made and closed within it.
PostFails ==
    /\ llm_pc = "post"
    /\ \E resp \in Served : Fails(resp)
    /\ sessions' = after_post(Append(sessions, "open"), FALSE)
    /\ UNCHANGED <<runVars, renderVars, parseVars, envVars>>

\* time.sleep(0.8 * 2 ** attempt) at the end of an outer attempt
Backoff ==
    /\ llm_pc = "sleep"
    /\ sleeps' = Append(sleeps, BackoffTenths * 2 ^ attempt)
    /\ attempt' = attempt + 1
    /\ llm_pc' = IF attempt + 1 < Attempts THEN "post" ELSE "exhausted"
    /\ UNCHANGED <<messages, max_tokens, url, tier, posts, last_err, llm_out, last_resp,
                   sessions>>
    /\ UNCHANGED <<runVars, renderVars, parseVars, envVars>>

\* raise RuntimeError(f"Connection to LLM failed after retries: {last_err}")
RaiseExhausted ==
    /\ llm_pc = "exhausted"
    /\ llm_out' = [kind |-> "failed after retries", cause |-> last_err]
    /\ llm_pc' = "raised"
    /\ UNCHANGED <<messages, max_tokens, attempt, url, tier, posts, last_err, sleeps,
                   last_resp, sessions>>
    /\ UNCHANGED <<runVars, renderVars, parseVars, envVars>>

-----------------------------------------------------------------------------
(* _parse_feedback                                                         *)

\* The number of leading tokens of s that are not in S.
LeadingNotIn(s, S) ==
    IF \A i \in 1..Len(s) : s[i] \notin S THEN Len(s)
    ELSE (CHOOSE i \in 1..Len(s) : s[i] \in S /\ \A j \in 1..(i-1) : s[j] \notin S) - 1

\* str.lower() on the words the model uses
LowerTok(t) ==
    CASE t \in {"Yes", "YES"} -> "yes"
      [] t \in {"No", "NO"} -> "no"
      [] OTHER -> t
Lower(s) == [i \in 1..Len(s) |-> LowerTok(s[i])]

\* [l.strip() for l in text.splitlines() if l.strip()]
StrippedLines(text) ==
    LET ls == SplitLines(text)
    IN  SelectSeq([i \in 1..Len(ls) |-> Strip(ls[i])], LAMBDA l : l # <<>>)

IsIssueLine(l) == StartsWith(l, <<"ISSUE", ":">>)

\* The split without re.MULTILINE: ^ matches at the start of the text only,
\* so the lines are never cut into blocks.
SplitBlocksAtTextStart(ls, cur) == <<cur \o ls>>

RECURSIVE SplitBlocks(_, _)
\* re.split(r"(?=^ISSUE:\s*)", joined, flags=re.MULTILINE) on the lines of
\* joined: a new block starts at every line that starts with ISSUE: (cur is
\* the block being filled; the first block is the text before the first such
\* line, empty when the text starts with one).
SplitBlocks(ls, cur) ==
    IF ls = <<>> THEN <<cur>>
    ELSE IF IsIssueLine(Head(ls))
         THEN <<cur>> \o SplitBlocks(Tail(ls), <<Head(ls)>>)
         ELSE SplitBlocks(Tail(ls), Append(cur, Head(ls)))

\* Whether re.search(label + r":\s*(.*)", block) matches.
HasLabel(block, label) ==
    \E i \in 1..(Len(block) - 1) : block[i] = label /\ block[i+1] = ":"

\* group(1) of the first match of label + r":\s*(.*)" in block: after the
\* label, \s* runs over blanks and line breaks, (.*) to the end of that line.
LabelValue(block, label) ==
    LET i == CHOOSE k \in 1..(Len(block) - 1) :
                 /\ block[k] = label /\ block[k+1] = ":"
                 /\ \A j \in 1..(k-1) : ~(block[j] = label /\ block[j+1] = ":")
        rest == Drop(block, i + 1)
        body == Drop(rest, LeadingIn(rest, Blank))
    IN  Take(body, LeadingNotIn(body, {NL}))

\* The item of one block of the split.
BlockItem(block) ==
    [issue |-> IF HasLabel(block, "ISSUE")
               THEN Strip(LabelValue(block, "ISSUE")) ELSE <<>>,
     why |-> IF HasLabel(block, "WHY") THEN Strip(LabelValue(block, "WHY")) ELSE <<>>,
     fix |-> IF HasLabel(block, "FIX") THEN Strip(LabelValue(block, "FIX")) ELSE <<>>,
     blocker |-> IF HasLabel(block, "BLOCKER")
                 THEN Strip(Lower(Strip(LabelValue(block, "BLOCKER"))))
                 ELSE <<"no">>]

BlockMatches(block) ==
    \/ HasLabel(block, "ISSUE") \/ HasLabel(block, "WHY")
    \/ HasLabel(block, "FIX") \/ HasLabel(block, "BLOCKER")

parse_feedback(text) ==
    IF text = <<>> \/ Strip(text) = Sentinel THEN <<>>
    ELSE LET groups == SplitBlocks(StrippedLines(text), <<>>)
             blocks == [i \in 1..Len(groups) |-> Join(<<NL>>, groups[i])]
             kept == SelectSeq(blocks, LAMBDA b : Strip(b) # <<>> /\ BlockMatches(b))
         IN  [i \in 1..Len(kept) |-> BlockItem(kept[i])]

-----------------------------------------------------------------------------
(* _extract_top_level_headings                                             *)

MaxHeadings == 8

RECURSIVE DotGroupsLen(_)
\* The length of the longest prefix of s matching (?:\.\d+)*
DotGroupsLen(s) ==
    IF Len(s) >= 2 /\ s[1] = "." /\ s[2] \in Digit
    THEN LET n == 1 + LeadingIn(Tail(s), Digit)
         IN  n + DotGroupsLen(Drop(s, n))
    ELSE 0

\* The length of the match of ^\d+(?:\.\d+)*\.?\s+ at the start of s, or 0
\* when it does not match.
NumPrefixLen(s) ==
    LET d == LeadingIn(s, Digit)
        g == d + DotGroupsLen(Drop(s, d))
        o == IF Len(s) > g /\ s[g + 1] = "." THEN g + 1 ELSE g
        w == LeadingIn(Drop(s, o), Blank \ {NL})
    IN  IF d = 0 \/ w = 0 THEN 0 ELSE o + w

\* The heading f"{num}. {text}" of an outline line, or <<>> when the line
\* does not match ^(\d+)(?:\.\d+)*\.?\s+(.+)$
OutlineHeading(line) ==
    LET l == Strip(line)
        n == NumPrefixLen(l)
    IN  IF n = 0 \/ n = Len(l) THEN <<>>
        ELSE Take(l, LeadingIn(l, Digit)) \o <<".", SP>> \o Drop(l, n)

RECURSIVE Uniq(_, _)
\* The first occurrences of s, in order (seen: those already kept).
Uniq(s, seen) ==
    IF s = <<>> THEN <<>>
    ELSE IF Head(s) \in seen THEN Uniq(Tail(s), seen)
    ELSE <<Head(s)>> \o Uniq(Tail(s), seen \cup {Head(s)})

\* The headings without the cut to the first eight.
extract_all_headings(outline_md) ==
    LET ls == SplitLines(outline_md)
    IN  Uniq(SelectSeq([i \in 1..Len(ls) |-> OutlineHeading(ls[i])],
                       LAMBDA h : h # <<>>), {})

\* The cut to the first eight made before the duplicates are dropped.
extract_cap_before_dedup(outline_md) ==
    LET ls == SplitLines(outline_md)
        hs == SelectSeq([i \in 1..Len(ls) |-> OutlineHeading(ls[i])],
                        LAMBDA h : h # <<>>)
    IN  Uniq(Take(hs, Min(MaxHeadings, Len(hs))), {})

extract_top_level_headings(outline_md) ==
    LET ls == SplitLines(outline_md)
        hs == SelectSeq([i \in 1..Len(ls) |-> OutlineHeading(ls[i])],
                        LAMBDA h : h # <<>>)
        uniq == Uniq(hs, {})
    IN  Take(uniq, Min(MaxHeadings, Len(uniq)))

-----------------------------------------------------------------------------
(* _rule_based_sop and format_input_data_to_prompt.  The input fields are  *)
(* a function from field names to text; a missing field reads as "".       *)

\* (data.get(k) or "").strip()
Field(data, k) == IF k \in DOMAIN data THEN Strip(data[k]) ELSE <<>>

\* b or a: the operands the other way round
\* The second value whatever the first is.
OrElseSecond(a, b) == b

OrElseSwapped(a, b) == IF b # <<>> THEN b ELSE a

\* a or b on strings
OrElse(a, b) == IF a # <<>> THEN a ELSE b

\* "## n. title"
SectionLine(n, title) == <<"#", "#", SP>> \o Str(n) \o <<".", SP, title>>

ProcedureTitle == "Poryadok vypolneniya rabot"
FootnoteLine == <<"[", "^", "1", "]", ":", SP,
                  "Dannyi dokument sformirovan avtomaticheski i trebuet proverki otvetstvennym litsom.">>

rule_based_sop(data) ==
    LET title == OrElse(Field(data, "title"), <<"Standartnaya operatsionnaya protsedura">>)
        scope == OrElse(Field(data, "scope"), Field(data, "sections"))
        responsibilities == OrElse(Field(data, "responsibilities"),
                                   <<"Otvetstvennye litsa opredelyayutsya rukovoditelem podrazdeleniya.">>)
        definitions == OrElse(Field(data, "definitions"),
                              <<"Terminy i opredeleniya privodyatsya pri neobhodimosti.">>)
        equipment == OrElse(Field(data, "equipment"), Field(data, "equipment_type"))
        procedure == OrElse(Field(data, "procedure"),
                            <<"Poshagovoe opisanie protsedury soglasno vnutrennim reglamentam.">>)
        periodicities == OrElse(Field(data, "periodicities"),
                                <<"Periodichnost vypolnyaemyh operatsii soglasno grafiku.">>)
        calibration == OrElse(Field(data, "calibration"),
                              <<"Kalibrovka provoditsya soglasno pasportu oborudovaniya i vnutrennim instruktsiyam.">>)
        safety == OrElse(Field(data, "safety"),
                         <<"Soblyudat tehniku bezopasnosti i ohranu truda.">>)
        references == OrElse(Field(data, "references"),
                             <<"Vnutrennie reglamenty, standarty, NPA.">>)
        md == << <<"#", SP>> \o title,
                 <<>>,
                 SectionLine(1, "Oblast primeneniya"),
                 OrElse(scope, <<"Opisanie oblasti primeneniya i ogranichenii.">>),
                 <<>>,
                 SectionLine(2, "Otvetstvennost"),
                 responsibilities,
                 <<>>,
                 SectionLine(3, "Opredeleniya"),
                 definitions,
                 <<>>,
                 SectionLine(4, "Oborudovanie i materialy") >>
              \o (IF equipment # <<>>
                  THEN << <<"|", SP, "Naimenovanie", SP, "|", SP, "Model/Tip", SP, "|", SP,
                            "Kalibrovka", SP, "|", SP, "Primechanie", SP, "|">>,
                          <<"|", SP, "-", "-", "-", SP, "|", SP, "-", "-", "-", SP, "|", SP,
                            "-", "-", "-", SP, "|", SP, "-", "-", "-", SP, "|">>,
                          <<"|", SP>> \o equipment \o
                            <<SP, "|", SP, "EMDASH", SP, "|", SP, "Po grafiku", SP, "|", SP,
                              "EMDASH", SP, "|">> >>
                  ELSE << <<"Sm. perechen oborudovaniya v prilozhenii A.">> >>)
              \o << <<>>,
                 SectionLine(5, ProcedureTitle),
                 procedure,
                 <<>>,
                 SectionLine(6, "Periodichnost"),
                 periodicities,
                 <<>>,
                 SectionLine(7, "Kalibrovka i poverka"),
                 calibration,
                 <<>>,
                 SectionLine(8, "Trebovaniya bezopasnosti"),
                 safety,
                 <<>>,
                 SectionLine(9, "Ssylki"),
                 references,
                 <<>>,
                 SectionLine(10, "Prilozheniya"),
                 <<"Prilozhenie A - Formy zapisei i zhurnaly.">>,
                 <<>>,
                 FootnoteLine >>
    IN  Join(<<NL>>, md)

PromptSliceLen == 4000

\* format_input_data_to_prompt, for input without source_docs
format_input_data_to_prompt(data) ==
    LET structure_text == Field(data, "structure_text")
        content_type == Field(data, "content_type")
        keys == <<"scope", "responsibilities", "definitions", "equipment", "procedure",
                  "periodicities", "calibration", "safety", "references", "notes">>
        keyPart(k) == IF Field(data, k) # <<>>
                      THEN <<k, ":", SP>> \o Field(data, k) \o <<NL>> ELSE <<>>
    IN  <<"Sgeneriruy polnyi proekt SOP", NL, "[METADANNYE]", NL,
          "Nazvanie", ":", SP>> \o Field(data, "title") \o <<NL,
          "Nomer", ":", SP>> \o Field(data, "sop_number") \o <<NL,
          "Tip oborudovaniya", ":", SP>> \o Field(data, "equipment_type") \o <<NL,
          "Tip soderzhimogo", ":", SP>> \o content_type \o <<NL,
          "[/METADANNYE]", NL, NL, "[TEKST VVODA]", NL,
          "Razdely/opisanie", ":", SP>> \o Field(data, "sections") \o <<NL,
          "Opisanie struktury", ":", SP>> \o Field(data, "structure_description") \o <<NL,
          "[/TEKST VVODA]", NL, NL>>
        \o (IF structure_text # <<>>
            THEN <<"[IZVLECHENNAYA STRUKTURA DOKUMENTA]", NL>>
                 \o Take(structure_text, Min(PromptSliceLen, Len(structure_text)))
                 \o <<NL, "[/IZVLECHENNAYA STRUKTURA DOKUMENTA]", NL, NL>>
            ELSE <<>>)
        \o Concat([i \in 1..Len(keys) |-> keyPart(keys[i])])
        \o <<"Trebovaniya k oformleniyu", NL>>
        \o (IF content_type = <<"Tolko dokument">>
            THEN <<"Ispolzuy isklyuchitelno [ISTOCHNIKI]", NL>>
            ELSE IF content_type = <<"II + istochnik">>
            THEN <<"Opiraysya na [ISTOCHNIKI]", NL>>
            ELSE <<>>)

-----------------------------------------------------------------------------
(* export._convert_markdown_to_doc: one pass over the lines, the state     *)
(* being the line index, the heading counter stack and the two counters.   *)

WS == Blank \ {NL}
MaxHeadingStyle == 3
MaxHashes == 6

\* len(m.group(1)) for re.match(r"^(#{1,6})\s+(.*)$", line), or 0
HeadingLevel(line) ==
    LET h == LeadingIn(line, {"#"})
    IN  IF h >= 1 /\ h <= MaxHashes /\ LeadingIn(Drop(line, h), WS) >= 1 THEN h ELSE 0

\* m.group(2).strip() of that match
HeadingText(line) == Strip(Drop(line, LeadingIn(line, {"#"})))

\* The counter stack padded to the level and incremented there, with the
\* deeper entries left in place.
bump_sec_nums_keep_deeper(sec_nums, level) ==
    LET padded == sec_nums \o [j \in 1..(level - Len(sec_nums)) |-> 0]
    IN  [padded EXCEPT ![level] = @ + 1]

\* The counter stack after a heading of this level: padded with zeros or
\* popped to the level, then its last entry incremented.
bump_sec_nums(sec_nums, level) ==
    LET padded == sec_nums \o [j \in 1..(level - Len(sec_nums)) |-> 0]
        cut == Take(padded, level)
    IN  [cut EXCEPT ![level] = @ + 1]

\* ".".join(str(n) for n in sec_nums if n > 0)
heading_number(sec_nums) ==
    LET shown == SelectSeq(sec_nums, LAMBDA n : n > 0)
    IN  Join(<<".">>, [j \in 1..Len(shown) |-> Str(shown[j])])

\* re.sub(r"^\d+(?:\.\d+)*\.?\s+", "", text)
strip_numeric_prefix(text) == Drop(text, NumPrefixLen(text))

\* :?[-]+:? on a whole cell
IsDashCell(c) ==
    LET a == IF c # <<>> /\ c[1] = ":" THEN Tail(c) ELSE c
        b == IF a # <<>> /\ a[Len(a)] = ":" THEN Take(a, Len(a) - 1) ELSE a
    IN  b # <<>> /\ \A j \in 1..Len(b) : b[j] = "-"

\* _is_table_separator
is_table_separator(line) ==
    LET l == Strip(line)
        a == IF l # <<>> /\ l[1] = "|" THEN Tail(l) ELSE l
        b == IF a # <<>> /\ a[Len(a)] = "|" THEN Take(a, Len(a) - 1) ELSE a
        cells == SplitAt(b, "|")
    IN  Len(cells) >= 2 /\ \A j \in 1..Len(cells) : IsDashCell(Strip(cells[j]))

\* [c.strip() for c in line.strip().strip('|').split('|')]
row_cells(line) ==
    LET l == Strip(line)
        a == Drop(l, LeadingIn(l, {"|"}))
        b == Take(a, Len(a) - TrailingIn(a, {"|"}))
        cs == SplitAt(b, "|")
    IN  [j \in 1..Len(cs) |-> Strip(cs[j])]

StartsTableRow(line) == LET l == Strip(line) IN l # <<>> /\ l[1] = "|"

RECURSIVE RowsEnd(_, _)
\* The index after the last of the consecutive pipe-prefixed lines from idx.
RowsEnd(lines, idx) ==
    IF idx <= Len(lines) /\ StartsTableRow(lines[idx]) THEN RowsEnd(lines, idx + 1) ELSE idx

\* _parse_markdown_table(lines, idx): the rows and the index after the block
\* (indices are 1-based here)
parse_markdown_table(lines, idx) ==
    LET first == IF idx + 1 <= Len(lines) /\ is_table_separator(lines[idx + 1])
                 THEN idx + 2 ELSE idx + 1
        last == RowsEnd(lines, first)
    IN  [rows |-> <<row_cells(lines[idx])>>
                  \o [j \in 1..(last - first) |-> row_cells(lines[first + j - 1])],
         idx |-> last]

\* _add_table raises IndexError on a row with more cells than the header row.
add_table_raises(rows) == \E j \in 2..Len(rows) : Len(rows[j]) > Len(rows[1])

\* Whether re.match(r"^!\[(.*?)\]\((.*?)\)$", line) matches
IsFigure(line) ==
    /\ Len(line) >= 5 /\ line[1] = "!" /\ line[2] = "[" /\ line[Len(line)] = ")"
    /\ \E k \in 3..(Len(line) - 2) : line[k] = "]" /\ line[k + 1] = "("

FigureSplit(line) ==
    CHOOSE k \in 3..(Len(line) - 2) :
        /\ line[k] = "]" /\ line[k + 1] = "("
        /\ \A j \in 3..(k - 1) : ~(line[j] = "]" /\ line[j + 1] = "(")
FigureCaption(line) == SubSeq(line, 3, FigureSplit(line) - 1)
FigurePath(line) == SubSeq(line, FigureSplit(line) + 2, Len(line) - 1)

\* re.match(r"^\s*[-*]\s+", line)
IsBullet(line) ==
    LET r == Drop(line, LeadingIn(line, WS))
    IN  r # <<>> /\ r[1] \in {"-", "*"} /\ LeadingIn(Tail(r), WS) >= 1

\* The length of the match of ^\s*\d+[\.)]\s+ or 0
NumberedLen(line) ==
    LET w == LeadingIn(line, WS)
        d == LeadingIn(Drop(line, w), Digit)
        r == Drop(line, w + d)
        v == IF r # <<>> /\ r[1] \in {".", ")"} THEN LeadingIn(Tail(r), WS) ELSE 0
    IN  IF d >= 1 /\ v >= 1 THEN w + d + 1 + v ELSE 0

\* re.match(r"^\[\^\d+\]:", line)
IsFootnote(line) ==
    LET d == LeadingIn(Drop(line, 2), Digit)
    IN  /\ Len(line) >= 5 /\ line[1] = "[" /\ line[2] = "^" /\ d >= 1
        /\ Len(line) >= d + 4 /\ line[d + 3] = "]" /\ line[d + 4] = ":"

\* The try block without the os.path.exists test: a picture for every path.
embedded_unchecked(path, files) == <<[kind |-> "picture", text |-> path]>>

\* What the try block of an image line adds (lines 221-225): the picture when
\* the path exists and add_picture takes it, nothing otherwise.
embedded(path, files) ==
    IF path \in files THEN <<[kind |-> "picture", text |-> path]>> ELSE <<>>

RenderInit == [i |-> 1, sec_nums |-> <<>>, table_counter |-> 0, figure_counter |-> 0,
               out |-> <<>>, raised |-> FALSE]

\* A render that starts from the numbering the previous render ended with.
start_state_carried(prev) ==
    [RenderInit EXCEPT !.sec_nums = prev.sec_nums,
                       !.table_counter = prev.table_counter,
                       !.figure_counter = prev.figure_counter]

\* The state a call of _convert_markdown_to_doc starts in, whatever state
\* (prev) the call before it ended in: a new document, sec_nums = [], both
\* counters 0, i = 0.
start_state(prev) == RenderInit

\* One iteration of the while loop on the state st (st.i is 1-based); files
\* are the paths os.path.exists finds and add_picture can embed.
convert_step(lines, st, files) ==
    LET line == lines[st.i]
        level == HeadingLevel(line)
    IN  IF level > 0 THEN
            LET nums == bump_sec_nums(st.sec_nums, level)
                run == heading_number(nums) \o <<SP>> \o strip_numeric_prefix(HeadingText(line))
            IN  [st EXCEPT !.sec_nums = nums, !.i = @ + 1,
                           !.out = Append(@, [kind |-> "heading",
                                              style |-> Min(level, MaxHeadingStyle),
                                              number |-> heading_number(nums),
                                              text |-> run])]
        ELSE IF StartsTableRow(line) /\ st.i + 1 <= Len(lines)
                /\ is_table_separator(lines[st.i + 1]) THEN
            LET t == parse_markdown_table(lines, st.i)
            IN  IF add_table_raises(t.rows)
                THEN [st EXCEPT !.raised = TRUE, !.i = t.idx]
                ELSE [st EXCEPT !.i = t.idx, !.table_counter = @ + 1,
                                !.out = @ \o <<[kind |-> "table", text |-> t.rows],
                                               [kind |-> "caption",
                                                text |-> <<"Tablitsa", SP>>
                                                         \o Str(st.table_counter + 1)
                                                         \o <<":", SP>> \o t.rows[1][1]]>>]
        ELSE IF IsFigure(line) THEN
            [st EXCEPT !.i = @ + 1, !.figure_counter = @ + 1,
                       !.out = @ \o embedded(FigurePath(line), files)
                                 \o <<[kind |-> "caption",
                                       text |-> <<"Risunok", SP>> \o Str(st.figure_counter + 1)
                                                \o <<":", SP>> \o FigureCaption(line)]>>]
        ELSE IF IsBullet(line) THEN
            [st EXCEPT !.i = @ + 1,
                       !.out = Append(@, [kind |-> "List Bullet",
                                          text |-> Strip(Tail(Strip(line)))])]
        ELSE IF NumberedLen(line) > 0 THEN
            [st EXCEPT !.i = @ + 1,
                       !.out = Append(@, [kind |-> "List Number",
                                          text |-> Drop(line, NumberedLen(line))])]
        ELSE IF IsFootnote(line) THEN
            [st EXCEPT !.i = @ + 1, !.out = Append(@, [kind |-> "paragraph", text |-> line])]
        ELSE [st EXCEPT !.i = @ + 1,
                        !.out = Append(@, [kind |-> "paragraph",
                                           text |-> IF Strip(line) = <<>> THEN <<>> ELSE line])]

RECURSIVE ConvertFrom(_, _, _)
ConvertFrom(lines, st, files) ==
    IF st.i > Len(lines) \/ st.raised THEN st
    ELSE ConvertFrom(lines, convert_step(lines, st, files), files)

\* _convert_markdown_to_doc(doc, md): the final state of the pass
convert_markdown_to_doc(md, files) == ConvertFrom(SplitLines(md), RenderInit, files)

-----------------------------------------------------------------------------
(* _manual_pipeline and run_review.  The pipeline blocks in call_llm; each *)
(* action below runs from one return of call_llm to the next call.         *)

WRITER_SYSTEM == <<"WRITER_SYSTEM">>
CRITIC_SYSTEM == <<"CRITIC_SYSTEM">>

OutlineTokens == 400
DraftTokens == 1500
SectionTokens == 700
CritiqueTokens == 500
FinalCritiqueTokens == 200

Msg(role, content) == [role |-> role, content |-> content]
Entry(name, content) == [name |-> name, content |-> content]

outline_msgs(input_prompt) ==
    <<Msg("system", WRITER_SYSTEM),
      Msg("user", input_prompt \o <<NL, NL, "Sformiruy tolko oglavlenie SOP.">>)>>
single_msgs(input_prompt) ==
    <<Msg("system", WRITER_SYSTEM), Msg("user", input_prompt)>>
part_msgs(h) ==
    <<Msg("system", WRITER_SYSTEM),
      Msg("user", <<"Sgeneriruy tolko razdel '">> \o h \o <<"' v formate Markdown.">>)>>
critic_msgs ==
    <<Msg("system", CRITIC_SYSTEM),
      Msg("user", <<"Prover sootvetstvie SOP pravilam.">>)>>
revise_msgs(input_prompt, feedback) ==
    <<Msg("system", WRITER_SYSTEM),
      Msg("user", input_prompt \o <<NL, NL, "Uchityvaya zamechaniya Kritika", ":", SP, NL, NL>>
                  \o feedback)>>
critic_final_msgs ==
    <<Msg("system", CRITIC_SYSTEM),
      Msg("user", <<"Prover itogovuyu versiyu.">>)>>

\* Approval whenever no item can be parsed from the critique.
is_status_ok_when_no_items(critique) == parse_feedback(critique) = <<>>

\* critic_feedback.strip() == "STATUS: OK"
is_status_ok(critique) == Strip(critique) = Sentinel

\* An approval that returns the revised text.
approved_draft_revised(draft_md, revised_md) == revised_md

\* final_draft = draft (line 347): the text returned when the first critique
\* approves.
approved_draft(draft_md, revised_md) == draft_md

\* A try block that ends before the revision.
InTryUntilCritique(step) == step \in {"outline", "single", "sections", "critique"}

\* The steps whose call_llm lies inside the try block (lines 286-379).
InTry(step) == step \in {"outline", "single", "sections", "critique", "revise", "critique2"}

ReviewResult(st, md, conv, items, fb) ==
    [status |-> st, draft_markdown |-> md, conversation |-> conv,
     feedback_items |-> items, used_fallback |-> fb]

\* str(e) of the error call_llm raises
ErrText(e) == <<"Connection to LLM failed after retries", ":", SP, e.cause.kind, SP>>
              \o Str(e.cause.post)

\* An except branch that keeps the last text the Writer returned, if any.
fallback_result_keeps_partial(data, conv, items, e) ==
    LET ws == SelectSeq(conv, LAMBDA en : en.name = "Writer")
    IN  ReviewResult("OK",
                     IF ws # <<>> THEN ws[Len(ws)].content ELSE rule_based_sop(data),
                     conv \o <<Entry("System", <<"LLM error", ":", SP>> \o ErrText(e)),
                               Entry("Writer", <<"Lokalnyi generator sformiroval chernovik SOP (bez LLM).">>),
                               Entry("Critic", Sentinel)>>,
                     items, TRUE)

\* An except branch that starts the log afresh with its own entries.
fallback_result_fresh_log(data, conv, items, e) ==
    ReviewResult("OK", rule_based_sop(data),
                 <<Entry("System", <<"LLM error", ":", SP>> \o ErrText(e)),
                   Entry("Writer", <<"Lokalnyi generator sformiroval chernovik SOP (bez LLM).">>),
                   Entry("Critic", Sentinel)>>,
                 items, TRUE)

\* What the except branch returns (lines 381-388).
fallback_result(data, conv, items, e) ==
    ReviewResult("OK", rule_based_sop(data),
                 conv \o <<Entry("System", <<"LLM error", ":", SP>> \o ErrText(e)),
                           Entry("Writer", <<"Lokalnyi generator sformiroval chernovik SOP (bez LLM).">>),
                           Entry("Critic", Sentinel)>>,
                 items, TRUE)

\* Field mappings a run is started with.
InputDatas ==
    { EmptyDict,
      [title |-> <<"Calibration of Scale X">>, procedure |-> <<SP, "Step A; Step B", SP>>] }

-----------------------------------------------------------------------------
(* utils.py: the numbered version files.  A file name is a sequence of     *)
(* tokens: the digits of its index one by one, "_", the label, ".docx".    *)

\* A directory without files.
NoFiles == [name \in {} |-> 0]

\* f"{idx:03d}": the decimal digits of idx, padded with zeros to three.
Format03d(idx) == [j \in 1..(3 - Len(Str(idx))) |-> "0"] \o Str(idx)

\* f"{idx:03d}_{label}.docx"
version_filename(idx, label) == Format03d(idx) \o <<"_">> \o label \o <<".docx">>

\* re.match(r"^(\d{3})_.*\.docx$", name)
MatchesVersionName(name) ==
    /\ Len(name) >= 5 /\ \A j \in 1..3 : name[j] \in Digit
    /\ name[4] = "_" /\ name[Len(name)] = ".docx"

RECURSIVE ParseInt(_)
\* int(digits)
ParseInt(digits) ==
    IF digits = <<>> THEN 0
    ELSE 10 * ParseInt(Take(digits, Len(digits) - 1))
         + (CHOOSE d \in 0..9 : Str(d) = <<digits[Len(digits)]>>)

\* _scan_existing_indices(versions_dir): the indices found (the code returns
\* them as a sorted list, of which next_index uses the emptiness and the
\* maximum)
scan_existing_indices(dir) ==
    {ParseInt(Take(name, 3)) : name \in {n \in DOMAIN dir : MatchesVersionName(n)}}

\* next_index(versions_dir)
next_index(dir) ==
    LET indices == scan_existing_indices(dir)
    IN  IF indices = {} THEN 1
        ELSE (CHOOSE m \in indices : \A k \in indices : k <= m) + 1

\* The directory after export_docx has written the file: a new file, or
\* the file of that name written once more.
written(dir, name) ==
    [n \in DOMAIN dir \cup {name} |->
        IF n = name THEN (IF n \in DOMAIN dir THEN dir[n] + 1 ELSE 1) ELSE dir[n]]

-----------------------------------------------------------------------------
\* max_rounds: int = 8
DefaultMaxRounds == 8

\* A pipeline that revises again while rounds are left.
after_second_critique_loops(rounds, made) == IF made < rounds THEN "revise" ELSE "done"

\* Where _manual_pipeline goes after the second critique, whatever
\* max_rounds (rounds) is and however many revisions were made: the return
\* at line 381.
after_second_critique(rounds, made) == "done"

\* No run of the pipeline is in progress.
PipelineIdle ==
    /\ pc = "idle" /\ input_data = EmptyDict /\ conversation = <<>>
    /\ outline_text = <<>> /\ max_rounds = DefaultMaxRounds
    /\ versions_dir = NoFiles
    /\ feedback_items = <<>> /\ status = "NEEDS_REVIEW" /\ used_fallback = FALSE
    /\ headings = <<>> /\ draft_parts = <<>> /\ draft = <<>>
    /\ critic_feedback = <<>> /\ revised = <<>> /\ critiques = <<>>
    /\ raised_at = <<>> /\ result = None /\ escaped = FALSE /\ doc = None

RunIdle == PipelineIdle /\ service = "mixed" /\ CredIdle

RenderIdle == md_lines = <<>> /\ image_files = {} /\ rst = RenderInit /\ renders = <<>>
ParseIdle == parse_pc = "idle" /\ fb_text = <<>> /\ fb_items = <<>>

Init ==
    /\ LlmIdle /\ RenderIdle /\ ParseIdle
    /\ pc = "start" /\ input_data \in InputDatas /\ conversation = <<>>
    /\ service \in Services /\ CredIdle /\ max_rounds = DefaultMaxRounds
    /\ versions_dir = NoFiles
    /\ outline_text = <<>>
    /\ feedback_items = <<>> /\ status = "NEEDS_REVIEW" /\ used_fallback = FALSE
    /\ headings = <<>> /\ draft_parts = <<>> /\ draft = <<>>
    /\ critic_feedback = <<>> /\ revised = <<>> /\ critiques = <<>>
    /\ raised_at = <<>> /\ result = None /\ escaped = FALSE /\ doc = None

input_prompt == format_input_data_to_prompt(input_data)

\* run_review up to the outline call (lines 468-469, 279-298)
RunStart ==
    /\ UNCHANGED <<renderVars, parseVars, envVars>>
    /\ pc = "start"
    /\ conversation' = <<Entry("User", input_prompt)>>
    /\ LlmBegin(outline_msgs(input_prompt), OutlineTokens)
    /\ pc' = "outline"
    /\ UNCHANGED <<input_data, feedback_items, status, used_fallback, headings,
                   draft_parts, draft, critic_feedback, revised, critiques, raised_at,
                   result, escaped, doc>>

\* lines 299-326: the outline is back; the single-shot draft or the first
\* section is requested
OutlineReturns ==
    /\ UNCHANGED <<renderVars, parseVars, envVars>>
    /\ pc = "outline" /\ llm_pc = "returned"
    /\ conversation' = Append(conversation, Entry("Writer", llm_out))
    /\ headings' = extract_top_level_headings(llm_out)
    /\ IF headings' = <<>>
       THEN LlmBegin(single_msgs(input_prompt), DraftTokens) /\ pc' = "single"
       ELSE LlmBegin(part_msgs(headings'[1]), SectionTokens) /\ pc' = "sections"
    /\ UNCHANGED <<input_data, feedback_items, status, used_fallback,
                   draft_parts, draft, critic_feedback, revised, critiques, raised_at,
                   result, escaped, doc>>

\* lines 311, 331-342
SingleReturns ==
    /\ UNCHANGED <<renderVars, parseVars, envVars>>
    /\ pc = "single" /\ llm_pc = "returned"
    /\ draft' = llm_out
    /\ conversation' = Append(conversation, Entry("Writer", llm_out))
    /\ LlmBegin(critic_msgs, CritiqueTokens)
    /\ pc' = "critique"
    /\ UNCHANGED <<input_data, feedback_items, status, used_fallback, headings,
                   draft_parts, critic_feedback, revised, critiques, raised_at,
                   result, escaped, doc>>

\* lines 327-342: a section is back; the next section or the critique
SectionReturns ==
    /\ UNCHANGED <<renderVars, parseVars, envVars>>
    /\ pc = "sections" /\ llm_pc = "returned"
    /\ draft_parts' = Append(draft_parts, llm_out)
    /\ conversation' = Append(conversation, Entry("Writer", llm_out))
    /\ IF Len(draft_parts') < Len(headings)
       THEN /\ LlmBegin(part_msgs(headings[Len(draft_parts') + 1]), SectionTokens)
            /\ UNCHANGED <<pc, draft>>
       ELSE /\ draft' = Join(<<NL, NL>>, draft_parts')
            /\ LlmBegin(critic_msgs, CritiqueTokens)
            /\ pc' = "critique"
    /\ UNCHANGED <<input_data, feedback_items, status, used_fallback, headings,
                   critic_feedback, revised, critiques, raised_at, result, escaped, doc>>

\* lines 343-362: the first critique is back
CritiqueReturns ==
    /\ UNCHANGED <<renderVars, parseVars, envVars>>
    /\ pc = "critique" /\ llm_pc = "returned"
    /\ critic_feedback' = llm_out
    /\ critiques' = Append(critiques, llm_out)
    /\ conversation' = Append(conversation, Entry("Critic", llm_out))
    /\ IF is_status_ok(llm_out)
       THEN /\ status' = "OK"
            /\ result' = ReviewResult("OK", approved_draft(draft, revised),
                                      conversation', feedback_items, used_fallback)
            /\ pc' = "done"
            /\ LlmEnd
            /\ UNCHANGED feedback_items
       ELSE /\ feedback_items' = feedback_items \o parse_feedback(llm_out)
            /\ LlmBegin(revise_msgs(input_prompt, llm_out), DraftTokens)
            /\ pc' = "revise"
            /\ UNCHANGED <<status, result>>
    /\ UNCHANGED <<input_data, used_fallback, headings, draft_parts, draft, revised,
                   raised_at, escaped, doc>>

\* lines 363-372
ReviseReturns ==
    /\ UNCHANGED <<renderVars, parseVars, envVars>>
    /\ pc = "revise" /\ llm_pc = "returned"
    /\ revised' = llm_out
    /\ conversation' = Append(conversation, Entry("Writer", llm_out))
    /\ LlmBegin(critic_final_msgs, FinalCritiqueTokens)
    /\ pc' = "critique2"
    /\ UNCHANGED <<input_data, feedback_items, status, used_fallback, headings,
                   draft_parts, draft, critic_feedback, critiques, raised_at,
                   result, escaped, doc>>

\* lines 373-379
Critique2Returns ==
    /\ UNCHANGED <<renderVars, parseVars, envVars>>
    /\ pc = "critique2" /\ llm_pc = "returned"
    /\ critiques' = Append(critiques, llm_out)
    /\ conversation' = Append(conversation, Entry("Critic", llm_out))
    /\ status' = IF is_status_ok(llm_out) THEN "OK" ELSE status
    /\ result' = ReviewResult(status', OrElse(revised, draft), conversation',
                              feedback_items, used_fallback)
    /\ pc' = after_second_critique(max_rounds, 1)
    /\ LlmEnd
    /\ UNCHANGED <<input_data, feedback_items, used_fallback, headings, draft_parts,
                   draft, critic_feedback, revised, raised_at, escaped, doc>>

\* lines 381-388: call_llm raised; inside the try block the except branch
\* returns the template draft, outside it the exception leaves run_review
CallRaises ==
    /\ UNCHANGED <<renderVars, parseVars, envVars>>
    /\ llm_pc = "raised"
    /\ pc \in {"outline", "single", "sections", "critique", "revise", "critique2"}
    /\ raised_at' = Append(raised_at, pc)
    /\ IF InTry(pc)
       THEN LET r == fallback_result(input_data, conversation, feedback_items, llm_out)
            IN  /\ result' = r
                /\ conversation' = r.conversation
                /\ status' = r.status
                /\ used_fallback' = r.used_fallback
                /\ pc' = "done"
                /\ UNCHANGED escaped
       ELSE /\ escaped' = TRUE
            /\ pc' = "failed"
            /\ UNCHANGED <<result, conversation, status, used_fallback>>
    /\ LlmEnd
    /\ UNCHANGED <<input_data, feedback_items, headings, draft_parts, draft,
                   critic_feedback, revised, critiques, doc>>

\* main.py:158-161: the result's text is rendered (no image file exists)
Export ==
    /\ UNCHANGED <<renderVars, parseVars, envVars>>
    /\ pc = "done"
    /\ doc' = convert_markdown_to_doc(result.draft_markdown, {})
    /\ pc' = "exported"
    /\ UNCHANGED llmVars
    /\ UNCHANGED <<input_data, conversation, feedback_items, status, used_fallback,
                   headings, draft_parts, draft, critic_feedback, revised, critiques,
                   raised_at, result, escaped>>

Next ==
    \/ RunStart
    \/ OutlineReturns
    \/ SingleReturns
    \/ SectionReturns
    \/ CritiqueReturns
    \/ ReviseReturns
    \/ Critique2Returns
    \/ CallRaises
    \/ Export
    \/ PostSucceeds
    \/ PostFails
    \/ Backoff
    \/ RaiseExhausted

Spec == Init /\ [][Next]_vars

-----------------------------------------------------------------------------
(* call_llm on its own, for conversations and budgets of every shape.      *)

Conversations ==
    { <<Msg("system", WRITER_SYSTEM), Msg("user", <<"q">>)>>,
      <<Msg("system", CRITIC_SYSTEM), Msg("user", <<"q">>),
        Msg("assistant", <<"a">>), Msg("user", <<"r">>)>>,
      <<Msg("user", <<"q">>), Msg("assistant", <<"a">>), Msg("user", <<"r">>)>>,
      <<Msg("system", WRITER_SYSTEM)>>,
      <<>> }

Budgets == {CritiqueTokens, DraftTokens}

InitLLM ==
    /\ RunIdle /\ RenderIdle /\ ParseIdle
    /\ llm_pc = "post" /\ messages \in Conversations /\ max_tokens \in Budgets
    /\ attempt = 0 /\ url = 1 /\ tier = 1
    /\ posts = <<>> /\ last_err = None /\ llm_out = None /\ sleeps = <<>>
    /\ last_resp = None /\ sessions = <<>>

NextLLM == PostSucceeds \/ PostFails \/ Backoff \/ RaiseExhausted

SpecLLM == InitLLM /\ [][NextLLM]_vars

-----------------------------------------------------------------------------
(* Claims about call_llm, checked under SpecLLM.                           *)

PostsPerUrl == 4
PostsPerAttempt == 8
MaxPosts == 16

IsPlainOf(payload, msgs) ==
    /\ Len(payload.messages) = Len(msgs)
    /\ \A i \in 1..Len(msgs) :
         /\ payload.messages[i].content.t = "str"
         /\ payload.messages[i].content.v = msgs[i].content

IsTypedOf(payload, msgs) ==
    /\ Len(payload.messages) = Len(msgs)
    /\ \A i \in 1..Len(msgs) :
         /\ payload.messages[i].content.t = "list"
         /\ payload.messages[i].content.v = <<[type |-> "text", text |-> msgs[i].content]>>

LastPost == posts[Len(posts)]

\* C4: the POSTs of one call are made in the fixed order attempt 0/1, URL
\* chat-completions then completions, and per URL full plain, full typed,
\* minimized plain, minimized typed; no POST follows a successful one, and
\* the call returns the content of that successful POST.
C4_FixedOrderFirstSuccess ==
    /\ \A i \in 1..Len(posts) :
         LET p == posts[i]
             k == (i - 1) % PostsPerUrl
         IN  /\ p.attempt = (i - 1) \div PostsPerAttempt
             /\ p.url = IF (i - 1) % PostsPerAttempt < PostsPerUrl
                        THEN "/v1/chat/completions" ELSE "/v1/completions"
             /\ k = 0 => IsPlainOf(p.payload, messages)
             /\ k = 1 => IsTypedOf(p.payload, messages)
             /\ k = 2 => IsPlainOf(p.payload, minimal_msgs(messages))
             /\ k = 3 => IsTypedOf(p.payload, minimal_msgs(messages))
    /\ \A i \in 1..(Len(posts) - 1) : ~posts[i].ok
    /\ (posts # <<>> /\ LastPost.ok) => llm_pc = "returned"
    /\ llm_pc = "returned" => LastPost.ok /\ llm_out = LastPost.content

\* Tiers one and two failed, tier three succeeded: three POSTs, no fourth.
C4_Witness ==
    /\ llm_pc = "returned" /\ Len(posts) = 3 /\ posts[3].tier = 3
    /\ Len(messages) = 4

\* The reply is a 200 whose body parses and whose extracted content is empty.
EmptyContent200(resp) ==
    /\ resp.kind = "http" /\ resp.status = 200 /\ resp.json
    /\ ~extract_content(resp.body).exc
    /\ extract_content(resp.body).val = <<>>

\* C5: a POST succeeds only if the reply is a 200 whose body parses as JSON
\* and whose extracted content is non-empty; a 200 with empty content fails
\* the POST and the call goes on to the next tier (while one is left);
\* call_llm never returns an empty string.
C5_SuccessNeeds200JsonContent ==
    /\ llm_pc = "returned" => llm_out # <<>>
    /\ posts # <<>> =>
         /\ LastPost.ok =>
              /\ last_resp.kind = "http" /\ last_resp.status = 200 /\ last_resp.json
              /\ ~extract_content(last_resp.body).exc
              /\ extract_content(last_resp.body).val # <<>>
         /\ EmptyContent200(last_resp) =>
              /\ ~LastPost.ok
              /\ last_err = [kind |-> "empty content", post |-> Len(posts)]
              /\ llm_pc # "returned"
              /\ Len(posts) < MaxPosts => llm_pc \in {"post", "sleep"}
              /\ Len(posts) % PostsPerUrl # 0 =>
                   llm_pc = "post" /\ tier = LastPost.tier + 1

\* A 200 with empty content at tier one: the call is about to post tier two.
C5_Witness ==
    /\ Len(posts) = 1 /\ EmptyContent200(last_resp)
    /\ llm_pc = "post" /\ tier = 2

\* C6: call_llm raises only after all 16 POSTs (2 outer attempts x 2 URLs x
\* 4 tiers) were made and failed, the error carries the error of the last
\* POST, and a call never makes more than 16 POSTs nor gets stuck.
C6_RaisesOnlyWhenExhausted ==
    /\ Len(posts) <= MaxPosts
    /\ llm_pc \in {"post", "sleep", "exhausted"} => ENABLED NextLLM
    /\ llm_pc \in {"exhausted", "raised"} =>
         /\ Len(posts) = MaxPosts
         /\ \A i \in 1..Len(posts) : ~posts[i].ok
         /\ last_err.post = MaxPosts
    /\ llm_pc = "raised" => llm_out.cause = last_err

C6_Witness == llm_pc = "raised" /\ Len(posts) = MaxPosts /\ llm_out.cause.kind = "status"

\* choices[0].message.content when non-empty, else choices[0].text
BothShapesContent(body) ==
    LET choice0 == body.choices[1]
        msg == Get(choice0, "message")
        chat == IF msg.t = "dict" THEN StrOrEmpty(Get(msg.v, "content")) ELSE <<>>
    IN  IF chat # <<>> THEN chat ELSE StrOrEmpty(Get(choice0, "text"))

\* C7: extraction takes choices[0].message.content when that is non-empty
\* and otherwise choices[0].text, so a 200 legacy reply with no message and
\* a non-empty text makes the POST succeed with that text.
C7_LegacyShapeExtracted ==
    (/\ posts # <<>>
     /\ last_resp.kind = "http" /\ last_resp.status = 200 /\ last_resp.json
     /\ "choices" \in DOMAIN last_resp.body /\ last_resp.body.choices # <<>>
     /\ BothShapesContent(last_resp.body) # <<>>)
    => /\ LastPost.ok
       /\ llm_out = BothShapesContent(last_resp.body)

-----------------------------------------------------------------------------
(* Claims about run_review, checked under Spec.                            *)

Finished == pc \in {"done", "exported"}

\* t occurs in s as a run of consecutive tokens
IsInfix(t, s) == \E i \in 0..(Len(s) - Len(t)) : SubSeq(s, i + 1, i + Len(t)) = t

\* C1: whatever the remote calls do (each returns text or raises),
\* run_review returns a ReviewResult; no exception leaves it, and a raise
\* of call_llm is always taken by the except branch.
C1_RunNeverRaises ==
    /\ ~escaped /\ pc # "failed"
    /\ llm_pc = "raised" => ENABLED CallRaises
    /\ Finished =>
         /\ result # None
         /\ result.status \in {"OK", "NEEDS_REVIEW"}
         /\ result.used_fallback \in BOOLEAN

\* The second critique raised after four calls had returned, and the run
\* still returned a result.
C1_Witness ==
    /\ pc = "done" /\ raised_at = <<"critique2">> /\ result # None

\* The texts remote calls returned before the error entry of a fallback log.
RemoteTexts(conv) == {conv[i].content : i \in 2..(Len(conv) - 3)}

\* C2: if a call raised at any step, the outcome has status OK,
\* used_fallback = TRUE and a non-empty final text equal to _rule_based_sop
\* of the input fields, holding none of the texts returned by earlier calls;
\* and used_fallback is FALSE in every run in which no call raised.
C2_FallbackOnAnyRaise ==
    Finished =>
        /\ raised_at # <<>> =>
             /\ result.status = "OK"
             /\ result.used_fallback
             /\ result.draft_markdown # <<>>
             /\ result.draft_markdown = rule_based_sop(input_data)
             /\ \A t \in RemoteTexts(result.conversation) :
                    ~IsInfix(t, result.draft_markdown)
        /\ raised_at = <<>> => ~result.used_fallback

\* The revision call raised after a sectioned draft and a critique returned.
C2_Witness ==
    /\ pc = "done" /\ raised_at = <<"revise">> /\ Len(draft_parts) = 2
    /\ result.used_fallback

LastCritiqueIsSentinel == critiques # <<>> /\ critiques[Len(critiques)] = Sentinel

\* C3 as stated: in every outcome, status is OK iff the last critique the
\* remote reviewer returned is exactly STATUS: OK.
C3_StatusIffLastVerdict ==
    Finished => (result.status = "OK" <=> LastCritiqueIsSentinel)

\* C3 amended: in every outcome that did not use the fallback, status is OK
\* iff the last critique the remote reviewer returned is exactly STATUS: OK;
\* every fallback outcome has status OK whatever the reviewer returned.
C3_StatusIffLastVerdictUnlessFallback ==
    Finished =>
        /\ ~result.used_fallback => (result.status = "OK" <=> LastCritiqueIsSentinel)
        /\ result.used_fallback => result.status = "OK"

\* Two critiques came back, the second not the sentinel: NEEDS_REVIEW.
C3_Witness ==
    /\ pc = "done" /\ ~result.used_fallback /\ Len(critiques) = 2
    /\ critiques[2] # Sentinel /\ result.status = "NEEDS_REVIEW"

\* C9: with a title and a procedure text in the input and every transport
\* tier failing, the run yields status OK with used_fallback, and the
\* rendering of its text has a heading reading "5. Poryadok vypolneniya
\* rabot" followed by a paragraph containing the procedure text.
C9_FallbackRendersSectionFive ==
    (/\ pc = "exported" /\ raised_at = <<"outline">>
     /\ Field(input_data, "title") # <<>> /\ Field(input_data, "procedure") # <<>>)
    => /\ result.status = "OK" /\ result.used_fallback
       /\ \E k \in 1..(Len(doc.out) - 1) :
            /\ doc.out[k].kind = "heading"
            /\ doc.out[k].text = <<"5", ".", SP, ProcedureTitle>>
            /\ doc.out[k + 1].kind = "paragraph"
            /\ IsInfix(Field(input_data, "procedure"), doc.out[k + 1].text)

-----------------------------------------------------------------------------
(* The renderer alone: export_docx_bytes on a Markdown text of a few lines *)
(* (SpecRender).                                                            *)

MaxLines == 5

\* The lines a text is made of: headings of depth 1, 2 (carrying a number
\* of its own) and 3, and a body line.
RenderLines ==
    { <<"#", SP, "Scope">>,
      <<"#", "#", SP, "1", ".", "1", SP, "Limits">>,
      <<"#", "#", "#", SP, "Detail">>,
      <<"Body text">> }

InitRender ==
    /\ LlmIdle /\ RunIdle /\ ParseIdle
    /\ md_lines \in UNION {[1..n -> RenderLines] : n \in 0..MaxLines}
    /\ image_files = {} /\ rst = RenderInit /\ renders = <<>>

\* export_docx_bytes: the whole pass of _convert_markdown_to_doc over the lines
ExportDocx ==
    /\ md_lines # <<>> /\ rst = RenderInit
    /\ rst' = ConvertFrom(md_lines, start_state(rst), image_files)
    /\ renders' = Append(renders, [md |-> md_lines, res |-> rst'])
    /\ UNCHANGED <<md_lines, image_files, llmVars, runVars, parseVars, envVars>>

NextRender == ExportDocx

SpecRender == InitRender /\ [][NextRender]_vars

\* The depth of every line of the text (0 for a line that is no heading).
HeadingDepths == [j \in 1..Len(md_lines) |-> HeadingLevel(md_lines[j])]

\* C8: for headings at depths 1, 2, 2, 1, 3 the emitted numbers are 1, 1.1,
\* 1.2, 2, 2.0.1: the depth-3 heading right after a depth-1 heading shows the
\* zero of the missing depth-2 level.
C8_ImplicitZeroShown ==
    (rst.i > Len(md_lines) /\ HeadingDepths = <<1, 2, 2, 1, 3>>)
    => [j \in 1..Len(rst.out) |-> rst.out[j].number]
       = << <<"1">>, <<"1", ".", "1">>, <<"1", ".", "2">>, <<"2">>,
            <<"2", ".", "0", ".", "1">> >>

-----------------------------------------------------------------------------
(* _parse_feedback alone, on the critiques a reviewer following            *)
(* CRITIC_SYSTEM can write (SpecParse).                                     *)

MaxBlocks == 2

\* The four values of one block of a critique; a block is well formed when
\* its BLOCKER value is yes or no in any letter case.
FeedbackBlocks ==
    [issue : {<<"caption">>, <<"units", SP, "missing">>},
     why : {<<"rule">>}, fix : {<<"add">>},
     blocker : {<<"yes">>, <<"No">>, <<"maybe">>}]

WellFormed(b) == Lower(b.blocker) \in {<<"yes">>, <<"no">>}

\* A line matching none of the four labels.
GarbageLine == <<"Here are my notes">>
Garbage == {"none", "before", "after"}
Layouts == {"tight", "spaced"}

Pad(lay, l) == IF lay = "spaced" THEN <<SP>> \o l \o <<SP, SP>> ELSE l

\* The four lines of a block as CRITIC_SYSTEM lays them out.
BlockLines(b, lay) ==
    << Pad(lay, <<"ISSUE", ":", SP>> \o b.issue),
       Pad(lay, <<"WHY", ":", SP>> \o b.why),
       Pad(lay, <<"FIX", ":", SP>> \o b.fix),
       Pad(lay, <<"BLOCKER", ":", SP>> \o b.blocker) >>

RECURSIVE BlocksLines(_, _)
BlocksLines(bs, lay) ==
    IF bs = <<>> THEN <<>>
    ELSE BlockLines(Head(bs), lay)
         \o (IF lay = "spaced" THEN << <<>> >> ELSE <<>>)
         \o BlocksLines(Tail(bs), lay)

\* The critique made of the blocks bs, with a garbage line before or after
\* them, tight or with blank lines and padding.
CritiqueOf(bs, g, lay) ==
    Join(<<NL>>, (IF g = "before" THEN <<GarbageLine>> ELSE <<>>)
                 \o BlocksLines(bs, lay)
                 \o (IF g = "after" THEN <<GarbageLine>> ELSE <<>>))

BlockSeqs == UNION {[1..n -> FeedbackBlocks] : n \in 0..MaxBlocks}

CritiqueTexts ==
    {CritiqueOf(bs, g, lay) : bs \in BlockSeqs, g \in Garbage, lay \in Layouts}
    \cup {<<>>, Sentinel, <<SP>> \o Sentinel \o <<NL>>}

InitParse ==
    /\ LlmIdle /\ RunIdle /\ RenderIdle
    /\ parse_pc = "input" /\ fb_text \in CritiqueTexts /\ fb_items = <<>>

\* _parse_feedback(text)
ParseFeedback ==
    /\ parse_pc = "input"
    /\ fb_items' = parse_feedback(fb_text)
    /\ parse_pc' = "parsed"
    /\ UNCHANGED <<fb_text, llmVars, runVars, renderVars, envVars>>

NextParse == ParseFeedback

SpecParse == InitParse /\ [][NextParse]_vars

\* The item the reviewer means by a block.
ItemOf(b) == [issue |-> b.issue, why |-> b.why, fix |-> b.fix, blocker |-> Lower(b.blocker)]

\* C10: the parse of the empty text and of the sentinel is empty, and the
\* parse of a critique of n well-formed blocks is exactly the n items of
\* those blocks, in order, each with its own four values; a line matching
\* no label adds no item and does not stop the parse.
C10_ParsesWellFormedBlocks ==
    parse_pc = "parsed" =>
        /\ (fb_text = <<>> \/ fb_text = Sentinel) => fb_items = <<>>
        /\ \A bs \in BlockSeqs, g \in Garbage, lay \in Layouts :
              ((\A i \in 1..Len(bs) : WellFormed(bs[i])) /\ fb_text = CritiqueOf(bs, g, lay))
              => fb_items = [i \in 1..Len(bs) |-> ItemOf(bs[i])]

\* Two different blocks after a garbage line, parsed into their two items.
C10_Witness ==
    /\ parse_pc = "parsed" /\ Len(fb_items) = 2
    /\ fb_items[1].issue # fb_items[2].issue
    /\ fb_items[1].blocker = <<"yes">> /\ fb_items[2].blocker = <<"no">>
    /\ StartsWith(fb_text, GarbageLine)

\* C11: every item _parse_feedback produces, for any critique, has a blocker
\* value that is yes or no (no when the block has no BLOCKER label).
C11_BlockerIsYesOrNo ==
    parse_pc = "parsed" =>
        \A i \in 1..Len(fb_items) : fb_items[i].blocker \in {<<"yes">>, <<"no">>}

-----------------------------------------------------------------------------
(* The renderer on documents made of table blocks, image lines and body    *)
(* lines (SpecDoc).                                                         *)

MaxDocBlocks == 5

TableHeader == <<"|", SP, "A", SP, "|", SP, "B", SP, "|">>
TableSeparator == <<"|", "-", "-", "-", "|", "-", "-", "-", "|">>
TableRow == <<"|", SP, "x", SP, "|", SP, "y", SP, "|">>
WideRow == <<"|", SP, "x", SP, "|", SP, "y", SP, "|", SP, "z", SP, "|">>
FigureLine(caption, path) == <<"!", "[", caption, "]", "(", path, ")">>

\* The image file that exists and can be embedded; missing.png does not exist.
ImageFiles == { <<"fig1.png">> }

\* The pieces a document is made of, each a run of lines.
DocBlocks ==
    { <<TableHeader, TableSeparator, TableRow>>,
      <<TableHeader, TableSeparator, WideRow>>,
      <<FigureLine("Setup", "fig1.png")>>,
      <<FigureLine("Layout", "missing.png")>>,
      << <<"Body text">> >> }

DocLines == UNION {[1..n -> DocBlocks] : n \in 0..MaxDocBlocks}

InitDoc ==
    /\ LlmIdle /\ RunIdle /\ ParseIdle
    /\ \E bs \in DocLines : md_lines = Concat(bs)
    /\ image_files = ImageFiles /\ rst = RenderInit /\ renders = <<>>

SpecDoc == InitDoc /\ [][NextRender]_vars

\* The render of md_lines has been made (rst is its final state).
Rendered == md_lines # <<>> /\ rst # RenderInit

\* The lines at which a table block starts: a pipe-prefixed line followed by
\* a separator and not itself inside a run of pipe-prefixed lines.
TableBlockStarts ==
    { j \in 1..(Len(md_lines) - 1) :
        /\ StartsTableRow(md_lines[j]) /\ is_table_separator(md_lines[j + 1])
        /\ (j = 1 \/ ~StartsTableRow(md_lines[j - 1])) }

\* The indices of the elements of this kind among the first k emitted.
OfKind(kind, k) == { j \in 1..k : rst.out[j].kind = kind }

\* C12: every table block is rendered as one table immediately followed by
\* the caption "Table N: <first header cell>", N being the 1-based position
\* of the block among the table blocks of the document.
C12_TableThenCaptionN ==
    Rendered =>
        /\ ~rst.raised
        /\ Cardinality(OfKind("table", Len(rst.out))) = Cardinality(TableBlockStarts)
        /\ \A k \in OfKind("table", Len(rst.out)) :
              /\ k < Len(rst.out)
              /\ rst.out[k + 1]
                 = [kind |-> "caption",
                    text |-> <<"Table", SP>> \o Str(Cardinality(OfKind("table", k)))
                             \o <<":", SP>> \o rst.out[k].text[1][1]]

\* The image lines of the document, in order.
ImageLines == SelectSeq(md_lines, IsFigure)

\* The captions of figures emitted, in order.
FigureCaptions ==
    SelectSeq(rst.out, LAMBDA e : e.kind = "caption" /\ Take(e.text, 2) = <<"Risunok", SP>>)

\* The number a caption carries: the digits between the word and the colon.
CaptionNumber(e) == Take(Drop(e.text, 2), LeadingIn(Drop(e.text, 2), Digit))

\* C13: the k-th image line of a document gets caption number k whatever
\* table blocks precede it or stand between the image lines; the figure
\* counter counts the image lines and the table counter the tables only.
C13_FigureNumbersIgnoreTables ==
    Rendered =>
        /\ Len(FigureCaptions) = Len(ImageLines)
        /\ \A k \in 1..Len(FigureCaptions) :
              /\ CaptionNumber(FigureCaptions[k]) = Str(k)
              /\ Drop(FigureCaptions[k].text, 2 + Len(Str(k)) + 2) = FigureCaption(ImageLines[k])
        /\ rst.figure_counter = Len(ImageLines)
        /\ rst.table_counter = Cardinality(OfKind("table", Len(rst.out)))

-----------------------------------------------------------------------------
(* Claims about the order of the remote calls of a run, checked under Spec *)

MaxCalls == 12

\* The remote calls of the run so far: those that returned (one log entry
\* each after the user's; the fallback adds three entries of its own), those
\* that raised, and the one in flight.
CallsMade ==
    (Len(conversation) - (IF conversation = <<>> THEN 0 ELSE 1)
                       - (IF used_fallback THEN 3 ELSE 0))
    + Len(raised_at) + (IF llm_pc = "idle" THEN 0 ELSE 1)

\* A step that enters call_llm.
StartsCall == llm_pc' = "post" /\ posts' = <<>>

\* The step a call may follow.
CallOrder ==
    { <<"start", "outline">>, <<"outline", "single">>, <<"outline", "sections">>,
      <<"sections", "sections">>, <<"sections", "critique">>, <<"single", "critique">>,
      <<"critique", "revise">>, <<"revise", "critique2">> }

\* C14: the remote calls of a run are made one after the other in the order
\* outline, drafts (one per heading in heading order, or one single-shot
\* draft), critique, then revision, then second critique; a call starts only
\* when the one before it has returned, and a run makes at most 12 calls.
C14_CallsSequentialInOrder ==
    /\ [](CallsMade <= MaxCalls)
    /\ [][StartsCall =>
            /\ llm_pc = (IF pc = "start" THEN "idle" ELSE "returned")
            /\ <<pc, pc'>> \in CallOrder
            /\ pc' = "outline" => messages' = outline_msgs(input_prompt)
            /\ pc' = "single" => headings' = <<>> /\ messages' = single_msgs(input_prompt)
            /\ pc' = "sections" =>
                  /\ Len(draft_parts') < Len(headings')
                  /\ messages' = part_msgs(headings'[Len(draft_parts') + 1])
            /\ pc' = "critique" =>
                  /\ Len(draft_parts') = Len(headings') /\ critiques' = <<>>
                  /\ messages' = critic_msgs
            /\ pc' = "revise" => Len(critiques') = 1 /\ messages' = revise_msgs(input_prompt, critiques'[1])
            /\ pc' = "critique2" => Len(critiques') = 1 /\ messages' = critic_final_msgs
       ]_vars

\* A run of twelve calls: the outline, eight sections, the critique, the
\* revision and the second critique, all returned.
C14_Witness ==
    /\ pc = "done" /\ ~used_fallback /\ CallsMade = MaxCalls
    /\ Len(headings) = MaxHeadings /\ Len(draft_parts) = MaxHeadings /\ Len(critiques) = 2

-----------------------------------------------------------------------------
(* _rule_based_sop alone, on field mappings with a few fields set          *)
(* (SpecTemplate).                                                          *)

MaxSetFields == 2

FieldNames ==
    {"title", "scope", "sections", "responsibilities", "definitions", "equipment",
     "equipment_type", "procedure", "periodicities", "calibration", "safety",
     "references"}

\* The texts a field can hold: empty, blank, and a padded value.
FieldTexts == { <<>>, <<SP>>, <<SP, "given text", SP>> }

FieldMappings ==
    UNION { [S -> FieldTexts] : S \in {T \in SUBSET FieldNames : Cardinality(T) <= MaxSetFields} }

InitTemplate ==
    /\ LlmIdle /\ RenderIdle /\ ParseIdle
    /\ pc = "template" /\ input_data \in FieldMappings /\ conversation = <<>>
    /\ feedback_items = <<>> /\ status = "NEEDS_REVIEW" /\ used_fallback = FALSE
    /\ headings = <<>> /\ draft_parts = <<>> /\ draft = <<>>
    /\ critic_feedback = <<>> /\ revised = <<>> /\ critiques = <<>>
    /\ raised_at = <<>> /\ result = None /\ escaped = FALSE /\ doc = None
    /\ service = "mixed" /\ CredIdle /\ max_rounds = DefaultMaxRounds
    /\ versions_dir = NoFiles
    /\ outline_text = <<>>

\* fallback_draft = _rule_based_sop(input_data)
RuleBasedSop ==
    /\ pc = "template"
    /\ draft' = rule_based_sop(input_data)
    /\ pc' = "templated"
    /\ UNCHANGED <<input_data, conversation, feedback_items, status, used_fallback,
                   headings, draft_parts, critic_feedback, revised, critiques,
                   raised_at, result, escaped, doc>>
    /\ UNCHANGED <<llmVars, renderVars, parseVars, envVars>>

NextTemplate == RuleBasedSop

SpecTemplate == InitTemplate /\ [][NextTemplate]_vars

\* The titles of the ten sections, the field each is filled from ("" for
\* the appendices, which have none) and the sentence used without it.
SectionTitles ==
    <<"Oblast primeneniya", "Otvetstvennost", "Opredeleniya", "Oborudovanie i materialy",
      ProcedureTitle, "Periodichnost", "Kalibrovka i poverka", "Trebovaniya bezopasnosti",
      "Ssylki", "Prilozheniya">>
SectionFields ==
    <<"scope", "responsibilities", "definitions", "equipment", "procedure",
      "periodicities", "calibration", "safety", "references", "">>
SectionDefaults ==
    << <<"Opisanie oblasti primeneniya i ogranichenii.">>,
       <<"Otvetstvennye litsa opredelyayutsya rukovoditelem podrazdeleniya.">>,
       <<"Terminy i opredeleniya privodyatsya pri neobhodimosti.">>,
       <<"Sm. perechen oborudovaniya v prilozhenii A.">>,
       <<"Poshagovoe opisanie protsedury soglasno vnutrennim reglamentam.">>,
       <<"Periodichnost vypolnyaemyh operatsii soglasno grafiku.">>,
       <<"Kalibrovka provoditsya soglasno pasportu oborudovaniya i vnutrennim instruktsiyam.">>,
       <<"Soblyudat tehniku bezopasnosti i ohranu truda.">>,
       <<"Vnutrennie reglamenty, standarty, NPA.">>,
       <<"Prilozhenie A - Formy zapisei i zhurnaly.">> >>

DraftLines == SplitLines(draft)

\* The lines of section n: those after its heading up to the next empty line.
SectionBody(n) ==
    LET ls == DraftLines
        h == CHOOSE j \in 1..Len(ls) : ls[j] = SectionLine(n, SectionTitles[n])
        e == CHOOSE j \in (h + 1)..Len(ls) :
                 ls[j] = <<>> /\ \A i \in (h + 1)..(j - 1) : ls[i] # <<>>
    IN  SubSeq(ls, h + 1, e - 1)

\* The skeleton: non-empty text whose section headings are the ten numbered
\* ones in order, ending with the one footnote.
HasSkeleton ==
    /\ draft # <<>>
    /\ SelectSeq(DraftLines, LAMBDA l : StartsWith(l, <<"#", "#", SP>>))
       = [n \in 1..10 |-> SectionLine(n, SectionTitles[n])]
    /\ DraftLines[Len(DraftLines)] = FootnoteLine
    /\ Len(SelectSeq(DraftLines, IsFootnote)) = 1

\* Section n holds the text v: as its one line, or for the equipment in the
\* first cell of the row of its table.
Holds(n, v) ==
    IF n = 4 /\ Len(SectionBody(n)) = 3
    THEN row_cells(SectionBody(n)[3])[1] = v
    ELSE SectionBody(n) = <<v>>

\* The text section n is filled from: its field; for the scope the sections
\* field when scope is blank, for the equipment the equipment_type field
\* when equipment is blank; the default sentence when all of these are blank.
SectionSource(n) ==
    LET v == IF SectionFields[n] = "" THEN <<>> ELSE Field(input_data, SectionFields[n])
        w == IF n = 1 THEN Field(input_data, "sections")
             ELSE IF n = 4 THEN Field(input_data, "equipment_type") ELSE <<>>
    IN  IF v # <<>> THEN v ELSE IF w # <<>> THEN w ELSE SectionDefaults[n]

-----------------------------------------------------------------------------
(* Claims about the conversation log of a run, checked under Spec          *)

IsPrefix(a, b) == Len(a) <= Len(b) /\ Take(b, Len(a)) = a

\* The name a step's output is logged under.
LoggedAs(step) == IF step \in {"critique", "critique2"} THEN "Critic" ELSE "Writer"

\* C16: the log only grows, in call order: every step keeps the log so far
\* as a prefix; a call that returned adds exactly one entry, with its
\* output; the fallback keeps the entries made before the failure and adds
\* after them an entry recording the error.
C16_LogAppendOnly ==
    [][/\ IsPrefix(conversation, conversation')
       /\ (llm_pc = "returned" /\ llm_pc' # "returned")
            => conversation' = Append(conversation, Entry(LoggedAs(pc), llm_out))
       /\ (llm_pc = "raised" /\ llm_pc' # "raised")
            => /\ Len(conversation') = Len(conversation) + 3
               /\ conversation'[Len(conversation) + 1]
                  = Entry("System", <<"LLM error", ":", SP>> \o ErrText(llm_out))
               /\ result'.conversation = conversation'
       /\ (llm_pc \notin {"returned", "raised"} /\ pc # "start")
            => conversation' = conversation
      ]_vars

\* A fallback after three calls had returned: their entries are in the log,
\* before the entry of the error.
C16_Witness ==
    /\ pc = "done" /\ used_fallback /\ Len(conversation) = 7
    /\ conversation[5].name = "System"
    /\ \A k \in 2..4 : conversation[k].name = "Writer"

-----------------------------------------------------------------------------
(* Claims about image lines, checked under SpecDoc                         *)

\* The image lines the render has passed (all of them unless it raised).
ImagesPassed ==
    SelectSeq(Take(md_lines, Min(rst.i - 1, Len(md_lines))), IsFigure)

\* The render stopped only at a table block, or not at all.
StopsOnlyAtTables ==
    /\ rst.raised => StartsTableRow(md_lines[rst.i - 1])
    /\ ~rst.raised => rst.i = Len(md_lines) + 1

\* The pictures emitted are those of the image lines whose file exists.
PicturesOfExistingFiles ==
    LET pics == SelectSeq(rst.out, LAMBDA e : e.kind = "picture")
        have == SelectSeq(ImagesPassed, LAMBDA l : FigurePath(l) \in image_files)
    IN  pics = [k \in 1..Len(have) |-> [kind |-> "picture", text |-> FigurePath(have[k])]]

\* The captions of the image lines passed, each with this word, its number
\* and the caption of its line.
CaptionsRead(word) ==
    /\ Len(FigureCaptions) = Len(ImagesPassed)
    /\ rst.figure_counter = Len(ImagesPassed)
    /\ \A k \in 1..Len(FigureCaptions) :
          FigureCaptions[k].text
          = <<word, SP>> \o Str(k) \o <<":", SP>> \o FigureCaption(ImagesPassed[k])

-----------------------------------------------------------------------------
(* The renderer called several times in one process (SpecRepeat).          *)

MaxRenders == 3

HeadingScope == <<"#", SP, "Scope">>
HeadingLimits == <<"#", "#", SP, "Limits">>
TableBlock == <<TableHeader, TableSeparator, TableRow>>

\* The texts handed to the renderer, each a sequence of lines.
RepeatDocs ==
    { <<HeadingScope>> \o TableBlock \o <<FigureLine("Setup", "fig1.png")>>,
      <<HeadingScope, HeadingLimits, <<"Body text">>>>,
      TableBlock \o << <<"Body text">> >> \o TableBlock,
      <<FigureLine("Layout", "missing.png"), FigureLine("Setup", "fig1.png")>>,
      <<TableHeader, TableSeparator, WideRow>>,
      << <<"Body text">> >> }

InitRepeat ==
    /\ LlmIdle /\ RunIdle /\ ParseIdle
    /\ md_lines = <<>> /\ image_files = ImageFiles
    /\ rst = RenderInit /\ renders = <<>>

\* One more call of export_docx_bytes in the same process, on any text.
ExportDocxBytes ==
    /\ Len(renders) < MaxRenders
    /\ \E md \in RepeatDocs :
         /\ md_lines' = md
         /\ rst' = ConvertFrom(md, start_state(rst), image_files)
         /\ renders' = Append(renders, [md |-> md, res |-> rst'])
    /\ UNCHANGED <<image_files, llmVars, runVars, parseVars, envVars>>

NextRepeat == ExportDocxBytes

SpecRepeat == InitRepeat /\ [][NextRepeat]_vars

-----------------------------------------------------------------------------
(* call_llm under every secret store and environment (SpecCred).           *)

EnvNameSet == {ENV_NAMES[i] : i \in 1..Len(ENV_NAMES)}

\* The value a name holds in the environment, and in the secret store.
EnvValue(n) == JStr(<<"env", n>>)
SecretValue(n) == JStr(<<"ui", n>>)

\* Every name unset, set to the empty string, or set to its value.
Environs ==
    { e \in [EnvNameSet -> {JNull, JStr(<<>>)} \cup {EnvValue(n) : n \in EnvNameSet}] :
        \A n \in EnvNameSet : e[n] \in {JNull, JStr(<<>>), EnvValue(n)} }

\* No streamlit, unreadable secrets, and stores of at most two names, one of
\* them with an empty api_key.
SecretStores ==
    {NoStreamlit, Unreadable, SecretStore("api_key" :> JStr(<<>>)),
     SecretStore(("api_key" :> JStr(<<>>)) @@ ("LLM_API_KEY" :> SecretValue("LLM_API_KEY")))}
    \cup { SecretStore([n \in S |-> SecretValue(n)]) :
             S \in {T \in SUBSET ({"api_key"} \cup EnvNameSet) : Cardinality(T) <= 2} }

InitCred ==
    /\ PipelineIdle /\ RenderIdle /\ ParseIdle
    /\ service = "long" /\ st_secrets \in SecretStores /\ environ \in Environs
    /\ llm_pc = "post" /\ messages = <<Msg("user", <<"q">>)>> /\ max_tokens = DraftTokens
    /\ attempt = 0 /\ url = 1 /\ tier = 1
    /\ posts = <<>> /\ last_err = None /\ llm_out = None /\ sleeps = <<>>
    /\ last_resp = None /\ sessions = <<>>

SpecCred == InitCred /\ [][NextLLM]_vars

\* The names present in the secret store, when it can be read.
Stored == IF st_secrets.kind = "store" THEN DOMAIN st_secrets.vals ELSE {}

\* The names of the list that come before n.
Before(n) ==
    {ENV_NAMES[j] : j \in 1..((CHOOSE i \in 1..Len(ENV_NAMES) : ENV_NAMES[i] = n) - 1)}

\* v is what the stated precedence resolves the credential to.
Resolves(v) ==
    IF "api_key" \in Stored THEN v = st_secrets.vals["api_key"]
    ELSE IF Stored \cap EnvNameSet # {}
         THEN \E n \in Stored \cap EnvNameSet :
                 /\ Before(n) \cap Stored = {}
                 /\ v = st_secrets.vals[n]
    ELSE IF \E n \in EnvNameSet : environ[n] \notin {JNull, JStr(<<>>)}
         THEN \E n \in EnvNameSet :
                 /\ environ[n] \notin {JNull, JStr(<<>>)}
                 /\ \A m \in Before(n) : environ[m] \in {JNull, JStr(<<>>)}
                 /\ v = environ[n]
    ELSE v = JNull

\* The credential a request was sent with: what follows "Bearer ", or the
\* empty string when it has no Authorization header.
Credential(p) ==
    IF "Authorization" \in DOMAIN p.headers
    THEN SubSeq(p.headers["Authorization"], 3, Len(p.headers["Authorization"]))
    ELSE <<>>

-----------------------------------------------------------------------------
(* The approval by the first critique, checked under Spec.                 *)

\* The reviewer's first critique is exactly the sentinel.
FirstCritiqueApproves == critiques # <<>> /\ critiques[1] = Sentinel

-----------------------------------------------------------------------------
(* The revision branch, checked under Spec.                                *)

\* The run returned from the try block after a first critique that is not
\* the sentinel: no call of it failed.
RevisedRun ==
    /\ pc \in {"done", "exported"} /\ ~used_fallback
    /\ critiques # <<>> /\ critiques[1] # Sentinel

\* The position of the first Critic entry of the log, or 0.
FirstCritic ==
    IF \E i \in 1..Len(conversation) : conversation[i].name = "Critic"
    THEN CHOOSE i \in 1..Len(conversation) :
             /\ conversation[i].name = "Critic"
             /\ \A j \in 1..(i - 1) : conversation[j].name # "Critic"
    ELSE 0

-----------------------------------------------------------------------------
(* What each request carries of the earlier results, checked under Spec.   *)

\* The user message of the request call_llm is working on.
Request == messages[Len(messages)].content

-----------------------------------------------------------------------------
(* _extract_top_level_headings alone, on outlines of up to ten lines       *)
(* (SpecOutline).                                                           *)

MaxOutlineLines == 3

\* The outline line "n. Partn".
NumberedLine(n) == Str(n) \o <<".", SP, "Part">> \o Str(n)

\* Seven numbered lines, all different.
SevenLines == [n \in 1..7 |-> NumberedLine(n)]

\* The lines that follow: new numbered lines, a repeat of line 1, a nested
\* number that reads as line 1, a numbered line with padding, and a line
\* without a number.
OutlineLines ==
    { NumberedLine(8), NumberedLine(9), NumberedLine(1),
      <<"1", ".", "1", SP, "Part">> \o Str(1),
      <<SP, "8", SP, SP, "Part">> \o Str(8) \o <<SP>>,
      <<"preface">> }

Outlines ==
    { Join(<<NL>>, pre \o ls) :
        pre \in {<<>>, SevenLines},
        ls \in UNION {[1..n -> OutlineLines] : n \in 0..MaxOutlineLines} }

InitOutline ==
    /\ LlmIdle /\ RenderIdle /\ ParseIdle
    /\ pc = "extract" /\ input_data = EmptyDict /\ conversation = <<>>
    /\ feedback_items = <<>> /\ status = "NEEDS_REVIEW" /\ used_fallback = FALSE
    /\ headings = <<>> /\ draft_parts = <<>> /\ draft = <<>>
    /\ critic_feedback = <<>> /\ revised = <<>> /\ critiques = <<>>
    /\ raised_at = <<>> /\ result = None /\ escaped = FALSE /\ doc = None
    /\ service = "mixed" /\ CredIdle /\ max_rounds = DefaultMaxRounds
    /\ versions_dir = NoFiles
    /\ outline_text \in Outlines

\* headings = _extract_top_level_headings(outline)
ExtractHeadings ==
    /\ pc = "extract"
    /\ headings' = extract_top_level_headings(outline_text)
    /\ pc' = "extracted"
    /\ UNCHANGED <<input_data, conversation, feedback_items, status, used_fallback,
                   draft_parts, draft, critic_feedback, revised, critiques,
                   raised_at, result, escaped, doc>>
    /\ UNCHANGED <<llmVars, renderVars, parseVars, envVars>>

NextOutline == ExtractHeadings

SpecOutline == InitOutline /\ [][NextOutline]_vars

\* The headings of the numbered-heading lines of the outline, line by line
\* (<<>> for a line that is none).
LineHeadings ==
    LET ls == SplitLines(outline_text)
    IN  [i \in 1..Len(ls) |-> OutlineHeading(ls[i])]

\* The line of lh on which the heading h occurs first.
FirstLine(lh, h) ==
    CHOOSE i \in 1..Len(lh) : lh[i] = h /\ \A j \in 1..(i - 1) : lh[j] # h

\* The number of distinct headings that occur on the lines of lh up to line i.
DistinctUpTo(lh, i) == Cardinality({lh[j] : j \in 1..i} \ {<<>>})

-----------------------------------------------------------------------------
(* The drafting step, checked under Spec.                                  *)

\* The drafting step is over and the run has not gone to the fallback.
Drafted ==
    /\ pc \in {"critique", "revise", "critique2", "done", "exported"}
    /\ ~used_fallback

RECURSIVE SegmentStart(_, _)
\* The number of tokens of the draft before its i-th segment: the segments
\* before it, each followed by a blank line.
SegmentStart(parts, i) ==
    IF i = 1 THEN 0
    ELSE SegmentStart(parts, i - 1) + Len(parts[i - 1]) + 2

-----------------------------------------------------------------------------
(* The renderer line by line on headings of every depth (SpecStack).       *)

MaxStackLines == 4

\* A heading line of depth d.
HashLine(d) == [j \in 1..d |-> "#"] \o <<SP, "Title">>

\* Heading lines of the depths 1..6 and a body line.
StackLines == {HashLine(d) : d \in 1..MaxHashes} \cup { <<"Body text">> }

InitStack ==
    /\ LlmIdle /\ RunIdle /\ ParseIdle
    /\ md_lines \in UNION {[1..n -> StackLines] : n \in 1..MaxStackLines}
    /\ image_files = {} /\ rst = RenderInit /\ renders = <<>>

\* One iteration of the while loop of _convert_markdown_to_doc.
ConvertLine ==
    /\ rst.i <= Len(md_lines) /\ ~rst.raised
    /\ rst' = convert_step(md_lines, rst, image_files)
    /\ UNCHANGED <<md_lines, image_files, renders, llmVars, runVars, parseVars, envVars>>

NextStack == ConvertLine

SpecStack == InitStack /\ [][NextStack]_vars

\* The entry of the stack s at depth j, 0 when the stack is shallower.
StackAt(s, j) == IF j <= Len(s) THEN s[j] ELSE 0

\* The step processes a heading line of depth d.
HeadingStep(d) == rst.i <= Len(md_lines) /\ HeadingLevel(md_lines[rst.i]) = d

\* C25: the stack never has more than 6 entries, and every step over a
\* heading line of depth d leaves it with exactly d entries: those above d
\* as they were (0 where there was none), the entry at d one more than it
\* was (1 where there was none), and nothing deeper than d.
C25_CounterStackRule ==
    /\ [](Len(rst.sec_nums) <= 6)
    /\ [][\A d \in 1..6 : HeadingStep(d) =>
            /\ Len(rst'.sec_nums) = d
            /\ \A j \in 1..(d - 1) : rst'.sec_nums[j] = StackAt(rst.sec_nums, j)
            /\ rst'.sec_nums[d] = StackAt(rst.sec_nums, d) + 1]_vars

\* Depths 2, 2, 1, 2: the stack went 0.1, 0.2, 1 and is now 1.1, the second
\* level created with a zero above it, counted up, discarded and restarted.
C25_Witness ==
    /\ HeadingDepths = <<2, 2, 1, 2>> /\ rst.i = 5
    /\ rst.sec_nums = <<1, 1>>

-----------------------------------------------------------------------------
(* The placing of the backoff sleeps, checked under SpecLLM.               *)

\* C26: call_llm sleeps only after all the POSTs of an outer attempt have
\* failed, every sleep is followed by another pass over the URLs and tiers,
\* so a call that exhausts both attempts has slept exactly once, and there
\* is no sleep between the last failed POST and the raise.
C26_SleepOnlyBetweenAttempts ==
    /\ Len(posts) >= PostsPerAttempt * Len(sleeps)
    /\ \A i \in 1..Len(posts) : ~posts[i].ok \/ i = Len(posts)
    /\ Len(sleeps) <= Attempts - 1
    /\ llm_pc \in {"exhausted", "raised"} => Len(sleeps) = Attempts - 1
    /\ Len(posts) = MaxPosts => llm_pc # "sleep"

-----------------------------------------------------------------------------
(* The minimized conversation, checked under SpecLLM.                      *)

\* The positions of the conversation the minimized one is made of: the
\* first when it is a system message, and the last.
KeptPositions ==
    (IF messages # <<>> /\ messages[1].role = "system" THEN {1} ELSE {})
    \cup (IF messages # <<>> THEN {Len(messages)} ELSE {})

\* The messages at those positions, each once, in order.
KeptMessages ==
    IF Cardinality(KeptPositions) = 2 THEN <<messages[1], messages[Len(messages)]>>
    ELSE IF Cardinality(KeptPositions) = 1 THEN <<messages[Len(messages)]>>
    ELSE <<>>

-----------------------------------------------------------------------------
(* _post_once step by step: the session is made, the POST is answered or   *)
(* raises, and the finally block closes the session (SpecSession).         *)

\* session = _make_session()
MakeSession ==
    /\ llm_pc = "post"
    /\ sessions' = Append(sessions, "open")
    /\ llm_pc' = "session"
    /\ UNCHANGED <<messages, max_tokens, attempt, url, tier, posts, last_err, llm_out,
                   sleeps, last_resp>>
    /\ UNCHANGED <<runVars, renderVars, parseVars, envVars>>

\* session.post(...) is answered with resp or raises; the try body runs to
\* its return or its raise.
SessionPost ==
    /\ llm_pc = "session"
    /\ \E resp \in Served : last_resp' = resp
    /\ llm_pc' = "finally"
    /\ UNCHANGED <<messages, max_tokens, attempt, url, tier, posts, last_err, llm_out,
                   sleeps, sessions>>
    /\ UNCHANGED <<runVars, renderVars, parseVars, envVars>>

\* The finally block, then what the try body came to reaches call_llm.
CloseSession ==
    /\ llm_pc = "finally"
    /\ sessions' = after_post(sessions, post_once(last_resp, Len(posts) + 1).ok)
    /\ Succeeds(last_resp) \/ Fails(last_resp)
    /\ UNCHANGED <<runVars, renderVars, parseVars, envVars>>

NextSession == MakeSession \/ SessionPost \/ CloseSession \/ Backoff \/ RaiseExhausted

SpecSession == InitLLM /\ [][NextSession]_vars

\* The sessions that are open.
OpenSessions == {i \in 1..Len(sessions) : sessions[i] = "open"}

\* C28: every POST has a session of its own, made for it and closed before
\* the next one is made and before call_llm returns or raises, whether the
\* POST succeeded or failed; never is more than one session open.
C28_OneFreshSessionPerPost ==
    /\ Cardinality(OpenSessions) <= 1
    /\ IF llm_pc \in {"session", "finally"}
       THEN Len(sessions) = Len(posts) + 1 /\ OpenSessions = {Len(sessions)}
       ELSE Len(sessions) = Len(posts) /\ OpenSessions = {}

\* Two POSTs failed and the third succeeded: three sessions, all closed.
C28_Witness ==
    /\ llm_pc = "returned" /\ Len(posts) = 3
    /\ sessions = <<"closed", "closed", "closed">>

-----------------------------------------------------------------------------
(* run_review under every max_rounds (SpecRounds).                         *)

\* The values of max_rounds a run is started with.
RoundsValues == {0, 1, DefaultMaxRounds}

InitRounds ==
    /\ LlmIdle /\ RenderIdle /\ ParseIdle
    /\ pc = "start" /\ input_data \in InputDatas /\ conversation = <<>>
    /\ service = "plain" /\ CredIdle /\ max_rounds \in RoundsValues
    /\ versions_dir = NoFiles
    /\ outline_text = <<>>
    /\ feedback_items = <<>> /\ status = "NEEDS_REVIEW" /\ used_fallback = FALSE
    /\ headings = <<>> /\ draft_parts = <<>> /\ draft = <<>>
    /\ critic_feedback = <<>> /\ revised = <<>> /\ critiques = <<>>
    /\ raised_at = <<>> /\ result = None /\ escaped = FALSE /\ doc = None

SpecRounds == InitRounds /\ [][Next]_vars

\* The revision calls made or in progress: the Writer entries after the
\* first critique, and the call the run is waiting for.
RevisionCalls ==
    Cardinality({i \in 1..Len(conversation) :
                    /\ conversation[i].name = "Writer" /\ FirstCritic > 0
                    /\ i > FirstCritic /\ ~used_fallback})
    + Cardinality({i \in 1..Len(raised_at) : raised_at[i] = "revise"})
    + (IF pc = "revise" THEN 1 ELSE 0)

\* The critique calls made or in progress.
CritiqueCalls ==
    Len(critiques)
    + Cardinality({i \in 1..Len(raised_at) : raised_at[i] \in {"critique", "critique2"}})
    + (IF pc \in {"critique", "critique2"} THEN 1 ELSE 0)

\* The outcome as the texts of the run determine it.
OutcomeOfTexts ==
    IF used_fallback
    THEN ReviewResult("OK", rule_based_sop(input_data), conversation, feedback_items, TRUE)
    ELSE IF Len(critiques) = 1
    THEN ReviewResult("OK", draft, conversation, <<>>, FALSE)
    ELSE ReviewResult(IF critiques[2] = Sentinel THEN "OK" ELSE "NEEDS_REVIEW",
                      revised, conversation, parse_feedback(critiques[1]), FALSE)

\* C29: whatever max_rounds is, a run makes at most one revision call and at
\* most two critique calls, it is over once the second critique is back,
\* and its outcome is the one the texts of the run determine, in which
\* max_rounds has no part.
C29_BoundedWhateverMaxRounds ==
    /\ RevisionCalls <= 1 /\ CritiqueCalls <= 2
    /\ Len(critiques) = 2 => Finished /\ llm_pc = "idle"
    /\ Finished => result = OutcomeOfTexts

\* max_rounds = 8 and a second critique that still finds fault: the run ends
\* with NEEDS_REVIEW after its one revision.
C29_Witness ==
    /\ max_rounds = DefaultMaxRounds /\ pc = "done" /\ Len(critiques) = 2
    /\ result.status = "NEEDS_REVIEW" /\ RevisionCalls = 1 /\ CritiqueCalls = 2

-----------------------------------------------------------------------------
(* The numbers of the headings of one render, checked under SpecStack.     *)

\* The positions of the heading paragraphs in the output of the render.
HeadingsOut == {j \in 1..Len(rst.out) : rst.out[j].kind = "heading"}

\* C30: no two headings emitted in one render carry the same number, for
\* any sequence of heading depths in 1..6.
C30_HeadingNumbersDistinct ==
    \A j, k \in HeadingsOut : j # k => rst.out[j].number # rst.out[k].number

-----------------------------------------------------------------------------
(* The renderer line by line on lines of every kind (SpecPass).            *)

MaxPassLines == 4

NarrowRow == <<"|", SP, "x", SP, "|">>

\* One line for each rule of the loop: a heading, the lines of a table block
\* (header, separator, a row as wide as the header, a wider and a narrower
\* one), an image line, a bullet item, a numbered item, a footnote, a blank
\* line and a paragraph.
PassLines ==
    { <<"#", SP, "Scope">>, TableHeader, TableSeparator, TableRow, WideRow,
      NarrowRow, FigureLine("Setup", "fig1.png"), <<"-", SP, "item">>,
      <<"1", ".", SP, "step">>, <<"[", "^", "1", "]", ":", SP, "note">>,
      <<SP>>, <<"Body text">> }

InitPass ==
    /\ LlmIdle /\ RunIdle /\ ParseIdle
    /\ md_lines \in UNION {[1..n -> PassLines] : n \in 1..MaxPassLines}
    /\ image_files = ImageFiles /\ rst = RenderInit /\ renders = <<>>

NextPass == ConvertLine

SpecPass == InitPass /\ [][NextPass]_vars

\* The line the loop is at starts a table block.
TableStep ==
    /\ StartsTableRow(md_lines[rst.i]) /\ rst.i + 1 <= Len(md_lines)
    /\ is_table_separator(md_lines[rst.i + 1])

\* The kinds of the elements the rule of the line the loop is at emits.
KindsOfRule ==
    LET line == md_lines[rst.i]
    IN  IF HeadingLevel(line) > 0 THEN <<"heading">>
        ELSE IF TableStep THEN <<"table", "caption">>
        ELSE IF IsFigure(line)
        THEN (IF FigurePath(line) \in image_files THEN <<"picture">> ELSE <<>>)
             \o <<"caption">>
        ELSE IF IsBullet(line) THEN <<"List Bullet">>
        ELSE IF NumberedLen(line) > 0 THEN <<"List Number">>
        ELSE <<"paragraph">>

\* The kinds of the elements emitted by the step.
KindsEmitted ==
    [j \in 1..(Len(rst'.out) - Len(rst.out)) |-> rst'.out[Len(rst.out) + j].kind]

\* C31: the pass never stops before the end of the text, and every
\* iteration moves the line index forward, by one line or for a table block
\* to the line after its header, separator and rows, keeps what was emitted
\* and adds the elements of the one rule of the line it was at: every line
\* is consumed once, none twice and none skipped.
C31_EveryLineConsumedOnce ==
    /\ [](rst.i <= Len(md_lines) + 1 /\ ~rst.raised)
    /\ [][/\ rst'.i > rst.i
          /\ rst'.i = IF TableStep THEN RowsEnd(md_lines, rst.i + 2) ELSE rst.i + 1
          /\ SubSeq(rst'.out, 1, Len(rst.out)) = rst.out
          /\ KindsEmitted = KindsOfRule]_vars

\* C32: whatever the numbers of cells of its rows, a table block is emitted
\* as one table followed by its caption without the render failing, and the
\* pass goes on with the line after the block.
C32_TableShapeNeverFails ==
    [][TableStep =>
          /\ ~rst'.raised /\ KindsEmitted = <<"table", "caption">>
          /\ rst'.i = RowsEnd(md_lines, rst.i + 2)]_vars

-----------------------------------------------------------------------------
(* save_version_docx called again and again on one directory (SpecVersions). *)

\* The number of writes a directory has seen at most before the calls stop.
MaxWrites == 5

RECURSIVE Writes(_)
\* The writes the files of the directory have had, all together.
Writes(dir) ==
    IF DOMAIN dir = {} THEN 0
    ELSE LET n == CHOOSE n \in DOMAIN dir : TRUE
         IN  dir[n] + Writes([m \in DOMAIN dir \ {n} |-> dir[m]])

Labels == { <<"draft">>, <<"final">>, <<"review">> }

\* The directories the calls start on: an empty one, one with two versions
\* and a file of another kind, and one that holds version 998.
StartDirs ==
    { NoFiles,
      written(written(written(NoFiles, version_filename(2, <<"draft">>)),
                      version_filename(7, <<"final">>)), <<"notes.txt">>),
      written(NoFiles, version_filename(998, <<"draft">>)) }

InitVersions ==
    /\ LlmIdle /\ RenderIdle /\ ParseIdle
    /\ pc = "idle" /\ input_data = EmptyDict /\ conversation = <<>>
    /\ service = "mixed" /\ CredIdle /\ max_rounds = DefaultMaxRounds
    /\ outline_text = <<>> /\ versions_dir \in StartDirs
    /\ feedback_items = <<>> /\ status = "NEEDS_REVIEW" /\ used_fallback = FALSE
    /\ headings = <<>> /\ draft_parts = <<>> /\ draft = <<>>
    /\ critic_feedback = <<>> /\ revised = <<>> /\ critiques = <<>>
    /\ raised_at = <<>> /\ result = None /\ escaped = FALSE /\ doc = None

\* save_version_docx(markdown_content, metadata, label)
SaveVersion ==
    /\ Writes(versions_dir) < MaxWrites
    /\ \E label \in Labels :
          versions_dir' = written(versions_dir,
                                  version_filename(next_index(versions_dir), label))
    /\ UNCHANGED <<service, st_secrets, environ, max_rounds, outline_text,
                   llmVars, runVars, renderVars, parseVars>>

NextVersions == SaveVersion

SpecVersions == InitVersions /\ [][NextVersions]_vars

\* The version files of the directory and the index each carries: the number
\* before the "_" of its name.
VersionFiles(dir) ==
    {n \in DOMAIN dir : LeadingIn(n, Digit) >= 3 /\ Len(n) > LeadingIn(n, Digit) + 1
                         /\ n[LeadingIn(n, Digit) + 1] = "_" /\ n[Len(n)] = ".docx"}
IndexOf(name) == ParseInt(Take(name, LeadingIn(name, Digit)))
StoredIndices(dir) == {IndexOf(n) : n \in VersionFiles(dir)}

\* The files the step writes.
WrittenNow ==
    {n \in DOMAIN versions_dir' :
        n \notin DOMAIN versions_dir \/ versions_dir'[n] > versions_dir[n]}

\* C33: no file of the directory is ever written a second time; every call
\* writes a file whose index is greater than every index stored before it;
\* and next_index is 1 for a directory without version files and one more
\* than the greatest stored index otherwise.
C33_IndicesStrictlyIncrease ==
    /\ [](\A n \in DOMAIN versions_dir : versions_dir[n] <= 1)
    /\ [](next_index(versions_dir)
            = IF StoredIndices(versions_dir) = {} THEN 1
              ELSE (CHOOSE m \in StoredIndices(versions_dir) :
                       \A k \in StoredIndices(versions_dir) : k <= m) + 1)
    /\ [][\A n \in WrittenNow : \A k \in StoredIndices(versions_dir) : IndexOf(n) > k]_vars

=============================================================================
